---- MODULE Spec2Model ----
(***************************************************************************)
(* Model of the Connect Game rules engine (js/connect-game.js): the        *)
(* ConnectGame class with its board, gravity engine, win detector and      *)
(* turn state machine.                                                     *)
(***************************************************************************)
EXTENDS Integers, Sequences, FiniteSets, TLC

\* ------------------------------------------------------------------ bounds
MaxHeight == 3
MaxWidth == 3
MaxCells == 6
MaxPlayers == 3
MaxWinLength == 3
MaxRotationTurns == 2
MaxTeams == 2
MaxBoardPlayers == 4
MaxCallsInARow == 2
MaxTimers == 2

\* --------------------------------------------------------------- constants
\* JavaScript null, as a board cell and as a player's team.
NULL == -1
\* JavaScript null as the winner of a game (labels are non-empty strings).
NoWinner == ""

VARIABLES
    \* ConnectGame configuration (set by the constructor, never reassigned)
    width, height, winLength, gravity, players, gravityRotation, teamCollaboration,
    \* ConnectGame state (set by reset)
    board, currentPlayerIndex, gameOver, winner, winningCells, turnCount, gravityDirection,
    \* observation of the calls: the last operation called, the last return value
    \* of makeMove, the value returned by the query called last (checkWin,
    \* getGravityTarget, getValidMoves, getAIMove; none after a move), the number
    \* of makeMove calls that returned true / returned true without ending the
    \* game since the last reset, the progress of end-to-end scenario 1, and
    \* the number of iterations of the while loop in each of the direct calls of
    \* applyGravity made in a row, the state reset() was called in when
    \* reset() is the last operation called, and for each player the number of
    \* makeMove calls that returned true while that player was the current
    \* player since the last reset
    lastOp, ret, result, okMoves, nonTerminalMoves, scenario, passesLog, resetFrom,
    movesBy,
    \* GameUI: whether this.game is set, the number of processAITurn timers
    \* scheduled and not yet fired, the handler that ran last, and whether the
    \* 'ai-thinking' element is displayed (style.display = 'block')
    hasGame, timers, uiOp, aiThinking,
    \* ShutTheBoxGame settings and current game (gameOver of the box game is
    \* boxGameOver, its strategy boxStrategy)
    numBoxes, numDice, dieFaces, boxStrategy,
    openBoxes, currentRoll, rollsThisGame, boxGameOver, currentScore,
    \* ShutTheBoxGame statistics (history.gameNumber, history.averageScore)
    totalGames, totalWins, scoreHistory, historyGameNumber, historyAverageScore,
    \* the Shut the Box page: manualMode, the number of 200 ms auto-roll timers
    \* scheduled and not yet fired, the combinations whose buttons are on
    \* display, and where control is in playOneGame ("idle" outside it, "roll"
    \* at the head of the loop, "move" after a roll that left the game on)
    manualMode, rollTimers, comboButtons, playing,
    \* observation of the box game: the operation called last, the value it
    \* returned, the number of makeMove calls that returned true since the
    \* last rollDice or reset, and the list passed to the makeMove call made
    \* last (none after another operation)
    boxOp, boxRet, movesThisRoll, selected

configVars == <<width, height, winLength, gravity, players, gravityRotation, teamCollaboration>>
stateVars == <<board, currentPlayerIndex, gameOver, winner, winningCells, turnCount, gravityDirection>>
obsVars == <<lastOp, ret, result, okMoves, nonTerminalMoves, scenario, passesLog, resetFrom,
             movesBy>>
uiVars == <<hasGame, timers, uiOp, aiThinking>>
settingVars == <<numBoxes, numDice, dieFaces, boxStrategy>>
gameVars == <<openBoxes, currentRoll, rollsThisGame, boxGameOver, currentScore>>
statVars == <<totalGames, totalWins, scoreHistory, historyGameNumber, historyAverageScore>>
pageVars == <<manualMode, rollTimers, comboButtons, playing>>
boxObsVars == <<boxOp, boxRet, movesThisRoll, selected>>
boxVars == <<settingVars, gameVars, statVars, pageVars, boxObsVars>>
vars == <<configVars, stateVars, obsVars, uiVars, boxVars>>

\* ------------------------------------------------------------ board helpers
Rows == 0 .. (height - 1)
Cols == 0 .. (width - 1)
Cells == Rows \X Cols
PlayerIds == DOMAIN players

InBounds(row, col) == row >= 0 /\ row < height /\ col >= 0 /\ col < width

EmptyBoard == [p \in Cells |-> NULL]

directions == <<"down", "right", "up", "left">>

indexOf(d) == CHOOSE i \in 0 .. 3 : directions[i + 1] = d

\* the (dr, dc) step of a gravity direction
GravityStep(d) ==
    CASE d = "down" -> <<1, 0>>
      [] d = "up" -> <<-1, 0>>
      [] d = "right" -> <<0, 1>>
      [] d = "left" -> <<0, -1>>

\* a walk that stops at the edge of the grid only
RECURSIVE GravityWalkThroughPieces(_, _, _, _)
GravityWalkThroughPieces(b, step, newRow, newCol) ==
    IF ~InBounds(newRow + step[1], newCol + step[2]) THEN <<newRow, newCol>>
    ELSE GravityWalkThroughPieces(b, step, newRow + step[1], newCol + step[2])

RECURSIVE GravityWalk(_, _, _, _)
GravityWalk(b, step, newRow, newCol) ==
    IF ~InBounds(newRow + step[1], newCol + step[2]) THEN <<newRow, newCol>>
    ELSE IF b[<<newRow + step[1], newCol + step[2]>>] # NULL THEN <<newRow, newCol>>
    ELSE GravityWalk(b, step, newRow + step[1], newCol + step[2])

\* a target found by falling one cell at most
getGravityTargetOneCellAway(b, d, row, col) ==
    IF ~gravity THEN <<row, col>>
    ELSE IF ~InBounds(row + GravityStep(d)[1], col + GravityStep(d)[2]) THEN <<row, col>>
    ELSE IF b[<<row + GravityStep(d)[1], col + GravityStep(d)[2]>>] # NULL THEN <<row, col>>
    ELSE <<row + GravityStep(d)[1], col + GravityStep(d)[2]>>

getGravityTarget(b, d, row, col) ==
    IF ~gravity THEN <<row, col>>
    ELSE GravityWalk(b, GravityStep(d), row, col)

\* ------------------------------------------------------------- applyGravity
\* occupied cells in row-major order
RECURSIVE OccupiedFrom(_, _)
OccupiedFrom(b, k) ==
    IF k >= height * width THEN <<>>
    ELSE LET p == <<k \div width, k % width>>
         IN  (IF b[p] # NULL THEN <<p>> ELSE <<>>) \o OccupiedFrom(b, k + 1)

\* a comparator that puts the pieces nearest along the direction first
SortKeyNearestFirst(d, p) ==
    CASE d = "down" -> p[1]
      [] d = "up" -> 0 - p[1]
      [] d = "right" -> p[2]
      [] d = "left" -> 0 - p[2]

\* the comparator key of positions.sort for a direction (ascending key order)
SortKey(d, p) ==
    CASE d = "down" -> 0 - p[1]
      [] d = "up" -> p[1]
      [] d = "right" -> 0 - p[2]
      [] d = "left" -> p[2]

\* Array.prototype.sort is stable: equal keys keep their row-major order
RECURSIVE SortFrom(_, _, _, _)
SortFrom(seq, d, k, maxKey) ==
    IF k > maxKey THEN <<>>
    ELSE SelectSeq(seq, LAMBDA p : SortKey(d, p) = k) \o SortFrom(seq, d, k + 1, maxKey)

SortPositions(seq, d) ==
    LET m == IF height > width THEN height ELSE width
    IN  SortFrom(seq, d, 0 - m, m)

\* a move that leaves a copy of the piece behind
MovePieceLeavingACopy(b, p, t) == [b EXCEPT ![t] = b[p]]

\* moving the piece at p to its gravity target t (the body of the if)
MovePiece(b, p, t) == [b EXCEPT ![t] = b[p], ![p] = NULL]

\* one iteration of the while loop body: [board, changed]
RECURSIVE GravityPass(_, _, _, _, _)
GravityPass(b, d, positions, i, changed) ==
    IF i > Len(positions) THEN [board |-> b, changed |-> changed]
    ELSE IF b[positions[i]] = NULL THEN GravityPass(b, d, positions, i + 1, changed)
    ELSE IF getGravityTarget(b, d, positions[i][1], positions[i][2]) # positions[i]
         THEN GravityPass(MovePiece(b, positions[i],
                                    getGravityTarget(b, d, positions[i][1], positions[i][2])),
                          d, positions, i + 1, TRUE)
         ELSE GravityPass(b, d, positions, i + 1, changed)

\* a settle that walks the pieces once, in row-major order
GravityLoopSingleUnsortedPass(b, d, passes) ==
    [board |-> GravityPass(b, d, OccupiedFrom(b, 0), 1, FALSE).board, passes |-> passes + 1]

\* the while (changed) loop: [board, passes]
RECURSIVE GravityLoop(_, _, _)
GravityLoop(b, d, passes) ==
    LET r == GravityPass(b, d, SortPositions(OccupiedFrom(b, 0), d), 1, FALSE)
    IN  IF r.changed THEN GravityLoop(r.board, d, passes + 1)
        ELSE [board |-> r.board, passes |-> passes + 1]

applyGravity(b, d) ==
    IF ~gravity THEN b ELSE GravityLoop(b, d, 0).board

\* ----------------------------------------------------------------- checkWin
HexDigits == <<"0", "1", "2", "3", "4", "5", "6", "7", "8", "9",
               "A", "B", "C", "D", "E", "F">>

\* Number.prototype.toString(16).toUpperCase()
RECURSIVE ToHexUpper(_)
ToHexUpper(n) ==
    IF n < 16 THEN HexDigits[n + 1]
    ELSE ToHexUpper(n \div 16) \o HexDigits[(n % 16) + 1]

\* template-literal conversion of a non-negative integer (decimal)
RECURSIVE ToDecimal(_)
ToDecimal(n) ==
    IF n < 10 THEN HexDigits[n + 1]
    ELSE ToDecimal(n \div 10) \o HexDigits[(n % 10) + 1]

getName(i) ==
    IF players[i].team # NULL
    THEN "Team " \o ToDecimal(players[i].team + 1) \o " - Player " \o ToHexUpper(i)
    ELSE "Player " \o ToHexUpper(i)

\* a scan that leaves the down-left diagonal out
winDirectionsWithoutDownLeft == <<<<0, 1>>, <<1, 0>>, <<1, 1>>, <<1, 1>>>>

winDirections == <<<<0, 1>>, <<1, 0>>, <<1, 1>>, <<1, -1>>>>

\* teammates always extend a run, whatever teamCollaboration says
countsTowardWinForEveryTeammate(playerIndex, cellPlayer) ==
    IF cellPlayer = playerIndex THEN TRUE
    ELSE players[playerIndex].team # NULL
         /\ players[cellPlayer].team = players[playerIndex].team

\* does cellPlayer continue a run that started on playerIndex
countsTowardWin(playerIndex, cellPlayer) ==
    IF cellPlayer = playerIndex THEN TRUE
    ELSE IF teamCollaboration
         THEN players[playerIndex].team # NULL
              /\ players[cellPlayer].team = players[playerIndex].team
         ELSE FALSE

\* the inner for loop (i = 1 .. winLength - 1) collecting the run's cells
RECURSIVE RunCells(_, _, _, _, _, _)
RunCells(b, row, col, dd, i, cells) ==
    IF i >= winLength THEN cells
    ELSE IF ~InBounds(row + dd[1] * i, col + dd[2] * i) THEN cells
    ELSE IF b[<<row + dd[1] * i, col + dd[2] * i>>] = NULL THEN cells
    ELSE IF countsTowardWin(b[<<row, col>>], b[<<row + dd[1] * i, col + dd[2] * i>>])
         THEN RunCells(b, row, col, dd, i + 1, Append(cells, <<row + dd[1] * i, col + dd[2] * i>>))
         ELSE cells

NoWin == [found |-> FALSE, winner |-> NoWinner, cells |-> <<>>, playerIndex |-> NULL]

\* a result that always names the player
WinResultNamingThePlayer(playerIndex, cells) ==
    [found |-> TRUE, winner |-> getName(playerIndex), cells |-> cells,
     playerIndex |-> playerIndex]

WinResult(playerIndex, cells) ==
    [found |-> TRUE,
     winner |-> IF players[playerIndex].team # NULL
                THEN "Team " \o ToDecimal(players[playerIndex].team + 1)
                ELSE getName(playerIndex),
     cells |-> cells,
     playerIndex |-> playerIndex]

\* the scan: the loops over row, col and direction
RECURSIVE CheckWinFrom(_, _, _, _)
CheckWinFrom(b, row, col, di) ==
    IF row >= height THEN NoWin
    ELSE IF col >= width THEN CheckWinFrom(b, row + 1, 0, 1)
    ELSE IF b[<<row, col>>] = NULL \/ di > 4 THEN CheckWinFrom(b, row, col + 1, 1)
    ELSE IF Len(RunCells(b, row, col, winDirections[di], 1, <<<<row, col>>>>)) >= winLength
         THEN WinResult(b[<<row, col>>], RunCells(b, row, col, winDirections[di], 1, <<<<row, col>>>>))
         ELSE CheckWinFrom(b, row, col, di + 1)

checkWin(b) == CheckWinFrom(b, 0, 0, 1)

\* isBoardFull that never reports a full board
isBoardFullNever(b) == FALSE

isBoardFull(b) == \A p \in Cells : b[p] # NULL

\* ------------------------------------------------------------ AI strategies
\* the cells in the order of the loops over row and col
RowMajor == [k \in 1 .. (height * width) |-> <<(k - 1) \div width, (k - 1) % width>>]

\* the test of getValidMoves on an empty cell under gravity
isAtEdgeOrTouchingFilled(b, d, c) ==
    IF ~InBounds(c[1] + GravityStep(d)[1], c[2] + GravityStep(d)[2]) THEN TRUE
    ELSE b[<<c[1] + GravityStep(d)[1], c[2] + GravityStep(d)[2]>>] # NULL

\* getValidMoves listing every empty cell, with or without gravity
getValidMovesIgnoringGravity(b, d) ==
    SelectSeq(RowMajor, LAMBDA c : b[c] = NULL)

getValidMoves(b, d) ==
    IF gravity
    THEN SelectSeq(RowMajor, LAMBDA c : b[c] = NULL /\ isAtEdgeOrTouchingFilled(b, d, c))
    ELSE SelectSeq(RowMajor, LAMBDA c : b[c] = NULL)

\* what a getMove call leaves: the value returned and the board
Undefined == <<"undefined">>
NullMove == <<"null">>
Returned(move, b) == [move |-> move, board |-> b]

\* moves[Math.floor(Math.random() * moves.length)]: the strategies return the
\* element still to be drawn as RandomPick, and the call draws the index rnd
\* (undefined on an empty list)
RandomPick == <<"Math.random">>

\* an index rounded up instead of down
PickRandomRoundingUp(moves, rnd) ==
    IF rnd + 2 > Len(moves) THEN Undefined ELSE moves[rnd + 2]

PickRandom(moves, rnd) ==
    IF Len(moves) = 0 THEN Undefined ELSE moves[(rnd % Len(moves)) + 1]

\* checkWinningMove: the win detector on the board with the temporary piece,
\* and the board once the piece is taken away again
checkWinningMove(b, c, playerIndex) == checkWin([b EXCEPT ![c] = playerIndex]).found
Undone(b, c) == [b EXCEPT ![c] = NULL]

isOpponent(playerIndex, index) ==
    IF index = playerIndex THEN FALSE
    ELSE IF players[playerIndex].team = NULL \/ players[index].team = NULL THEN TRUE
    ELSE players[playerIndex].team # players[index].team

PlayerSeq == [k \in 1 .. Cardinality(PlayerIds) |-> k - 1]

getOpponents(playerIndex) == SelectSeq(PlayerSeq, LAMBDA i : isOpponent(playerIndex, i))

\* the pieces of playerIndex or of a teammate met from step i on along (dr, dc),
\* up to the first cell that is off the grid, empty or another side's
RECURSIVE ChainRun(_, _, _, _, _, _, _)
ChainRun(b, row, col, dr, dc, i, playerIndex) ==
    IF i >= winLength THEN 0
    ELSE IF ~InBounds(row + dr * i, col + dc * i) THEN 0
    ELSE IF b[<<row + dr * i, col + dc * i>>] = NULL THEN 0
    ELSE IF \/ b[<<row + dr * i, col + dc * i>>] = playerIndex
            \/ /\ players[playerIndex].team # NULL
               /\ players[b[<<row + dr * i, col + dc * i>>]].team = players[playerIndex].team
         THEN 1 + ChainRun(b, row, col, dr, dc, i + 1, playerIndex)
         ELSE 0

\* chainLength for one direction: both ways along the line
chainLength(b, row, col, dd, playerIndex) ==
    ChainRun(b, row, col, 0 - dd[1], 0 - dd[2], 1, playerIndex)
    + ChainRun(b, row, col, dd[1], dd[2], 1, playerIndex)

Max(x, y) == IF x > y THEN x ELSE y

getLongestChainNear(b, row, col, playerIndex) ==
    Max(Max(chainLength(b, row, col, winDirections[1], playerIndex),
            chainLength(b, row, col, winDirections[2], playerIndex)),
        Max(chainLength(b, row, col, winDirections[3], playerIndex),
            chainLength(b, row, col, winDirections[4], playerIndex)))

\* the scan replacing bestMove on a tie as well (>= for >)
RECURSIVE DefensiveScanTakingTies(_, _, _, _, _, _, _)
DefensiveScanTakingTies(b, moves, opponents, i, j, bestMove, maxChainBlocked) ==
    IF i > Len(moves) THEN bestMove
    ELSE IF j > Len(opponents)
         THEN DefensiveScanTakingTies(b, moves, opponents, i + 1, 1, bestMove, maxChainBlocked)
    ELSE IF getLongestChainNear(b, moves[i][1], moves[i][2], opponents[j]) >= maxChainBlocked
            /\ getLongestChainNear(b, moves[i][1], moves[i][2], opponents[j]) > 0
         THEN DefensiveScanTakingTies(b, moves, opponents, i, j + 1, moves[i],
                            getLongestChainNear(b, moves[i][1], moves[i][2], opponents[j]))
         ELSE DefensiveScanTakingTies(b, moves, opponents, i, j + 1, bestMove, maxChainBlocked)

\* DefensiveAI.getMove's loops over moves (i) and opponents (j): bestMove
RECURSIVE DefensiveScan(_, _, _, _, _, _, _)
DefensiveScan(b, moves, opponents, i, j, bestMove, maxChainBlocked) ==
    IF i > Len(moves) THEN bestMove
    ELSE IF j > Len(opponents)
         THEN DefensiveScan(b, moves, opponents, i + 1, 1, bestMove, maxChainBlocked)
    ELSE IF getLongestChainNear(b, moves[i][1], moves[i][2], opponents[j]) > maxChainBlocked
         THEN DefensiveScan(b, moves, opponents, i, j + 1, moves[i],
                            getLongestChainNear(b, moves[i][1], moves[i][2], opponents[j]))
         ELSE DefensiveScan(b, moves, opponents, i, j + 1, bestMove, maxChainBlocked)

\* bestMove || moves[random]
OrRandom(bestMove) ==
    IF bestMove # NullMove THEN bestMove ELSE RandomPick

RandomAI_getMove(b, d, playerIndex) == Returned(RandomPick, b)

DefensiveAI_getMove(b, d, playerIndex) ==
    Returned(OrRandom(DefensiveScan(b, getValidMoves(b, d), getOpponents(playerIndex),
                                    1, 1, NullMove, 0)),
             b)

\* the cells from step i on along (dr, dc) that are empty or hold a piece of
\* playerIndex or of a teammate
RECURSIVE SpaceRun(_, _, _, _, _, _, _)
SpaceRun(b, row, col, dr, dc, i, playerIndex) ==
    IF i >= winLength THEN 0
    ELSE IF ~InBounds(row + dr * i, col + dc * i) THEN 0
    ELSE IF \/ b[<<row + dr * i, col + dc * i>>] = NULL
            \/ b[<<row + dr * i, col + dc * i>>] = playerIndex
            \/ /\ players[playerIndex].team # NULL
               /\ players[b[<<row + dr * i, col + dc * i>>]].team = players[playerIndex].team
         THEN 1 + SpaceRun(b, row, col, dr, dc, i + 1, playerIndex)
         ELSE 0

spacesAvailable(b, row, col, dd, playerIndex) ==
    1 + SpaceRun(b, row, col, 0 - dd[1], 0 - dd[2], 1, playerIndex)
      + SpaceRun(b, row, col, dd[1], dd[2], 1, playerIndex)

\* evaluateMove's loop over the directions, from direction di on
RECURSIVE EvaluateFrom(_, _, _, _, _)
\* evaluateMove without the winning-move shortcut
EvaluateFromWithoutWinScore(b, move, playerIndex, di, maxExtension) ==
    IF di > 4 THEN (IF maxExtension > 0 THEN maxExtension ELSE 1)
    ELSE IF spacesAvailable(b, move[1], move[2], winDirections[di], playerIndex) >= winLength
         THEN EvaluateFrom(b, move, playerIndex, di + 1,
                  Max(maxExtension,
                      chainLength(b, move[1], move[2], winDirections[di], playerIndex) * 10
                      + spacesAvailable(b, move[1], move[2], winDirections[di], playerIndex)))
         ELSE EvaluateFrom(b, move, playerIndex, di + 1, maxExtension)

EvaluateFrom(b, move, playerIndex, di, maxExtension) ==
    IF di > 4 THEN (IF maxExtension > 0 THEN maxExtension ELSE 1)
    ELSE IF chainLength(b, move[1], move[2], winDirections[di], playerIndex) + 1 >= winLength
         THEN 1000
    ELSE IF spacesAvailable(b, move[1], move[2], winDirections[di], playerIndex) >= winLength
         THEN EvaluateFrom(b, move, playerIndex, di + 1,
                  Max(maxExtension,
                      chainLength(b, move[1], move[2], winDirections[di], playerIndex) * 10
                      + spacesAvailable(b, move[1], move[2], winDirections[di], playerIndex)))
         ELSE EvaluateFrom(b, move, playerIndex, di + 1, maxExtension)

evaluateMove(b, move, playerIndex) == EvaluateFrom(b, move, playerIndex, 1, 0)

\* OffensiveAI.getMove's loop over the moves: bestMove
RECURSIVE OffensiveScan(_, _, _, _, _, _)
OffensiveScan(b, moves, playerIndex, i, bestMove, bestScore) ==
    IF i > Len(moves) THEN bestMove
    ELSE IF evaluateMove(b, moves[i], playerIndex) > bestScore
         THEN OffensiveScan(b, moves, playerIndex, i + 1, moves[i],
                            evaluateMove(b, moves[i], playerIndex))
         ELSE OffensiveScan(b, moves, playerIndex, i + 1, bestMove, bestScore)

OffensiveAI_getMove(b, d, playerIndex) ==
    Returned(OrRandom(OffensiveScan(b, getValidMoves(b, d), playerIndex, 1, NullMove, -1)),
             b)

\* "1. Check if we can win": the loop over the moves from move i on, each probe
\* writing the piece, running checkWin and writing null
\* a probe that leaves its piece on the board when it finds a win
RECURSIVE FirstWinningMove(_, _, _, _)
FirstWinningMoveLeavingThePiece(b, moves, i, playerIndex) ==
    IF i > Len(moves) THEN Returned(NullMove, b)
    ELSE IF checkWinningMove(b, moves[i], playerIndex)
         THEN Returned(moves[i], [b EXCEPT ![moves[i]] = playerIndex])
         ELSE FirstWinningMove(Undone(b, moves[i]), moves, i + 1, playerIndex)

FirstWinningMove(b, moves, i, playerIndex) ==
    IF i > Len(moves) THEN Returned(NullMove, b)
    ELSE IF checkWinningMove(b, moves[i], playerIndex)
         THEN Returned(moves[i], Undone(b, moves[i]))
         ELSE FirstWinningMove(Undone(b, moves[i]), moves, i + 1, playerIndex)

\* "2. Check if we need to block opponent": the loops over moves (i) and
\* opponents (j)
RECURSIVE FirstBlockingMove(_, _, _, _, _)
FirstBlockingMove(b, moves, opponents, i, j) ==
    IF i > Len(moves) THEN Returned(NullMove, b)
    ELSE IF j > Len(opponents) THEN FirstBlockingMove(b, moves, opponents, i + 1, 1)
    ELSE IF checkWinningMove(b, moves[i], opponents[j])
         THEN Returned(moves[i], Undone(b, moves[i]))
         ELSE FirstBlockingMove(Undone(b, moves[i]), moves, opponents, i, j + 1)

Abs(x) == IF x < 0 THEN 0 - x ELSE x

Neighbours == {dd \in (-1 .. 1) \X (-1 .. 1) : dd # <<0, 0>>}

scoreMove(b, move, playerIndex) ==
    10 - Abs(move[2] - (width \div 2)) - Abs(move[1] - (height \div 2))
    + 5 * Cardinality({dd \in Neighbours :
                          /\ InBounds(move[1] + dd[1], move[2] + dd[2])
                          /\ b[<<move[1] + dd[1], move[2] + dd[2]>>] = playerIndex})

\* scoredMoves.sort((a, b) => b.score - a.score): a stable sort, the scores
\* lying between 10 - width - height and 50
RECURSIVE SortByScoreFrom(_, _, _, _)
SortByScoreFrom(b, moves, playerIndex, score) ==
    IF score < 10 - width - height THEN <<>>
    ELSE SelectSeq(moves, LAMBDA m : scoreMove(b, m, playerIndex) = score)
         \o SortByScoreFrom(b, moves, playerIndex, score - 1)

\* scoredMoves[0].move (reading .move of undefined throws)
Throws == <<"TypeError">>
BestScoredMove(b, moves, playerIndex) ==
    IF Len(moves) = 0 THEN Throws
    ELSE SortByScoreFrom(b, moves, playerIndex, 50)[1]

SmartAI_getMove(b, d, playerIndex) ==
    LET moves == getValidMoves(b, d)
        win == FirstWinningMove(b, moves, 1, playerIndex)
        block == FirstBlockingMove(win.board, moves, getOpponents(playerIndex), 1, 1)
    IN  IF win.move # NullMove THEN win
        ELSE IF block.move # NullMove THEN block
        ELSE Returned(BestScoredMove(block.board, moves, playerIndex), block.board)

OffensiveSmartAI_getMove(b, d, playerIndex) ==
    LET moves == getValidMoves(b, d)
        win == FirstWinningMove(b, moves, 1, playerIndex)
        block == FirstBlockingMove(win.board, moves, getOpponents(playerIndex), 1, 1)
    IN  IF win.move # NullMove THEN win
        ELSE IF block.move # NullMove THEN block
        ELSE OffensiveAI_getMove(block.board, d, playerIndex)

DefensiveSmartAI_getMove(b, d, playerIndex) ==
    LET win == FirstWinningMove(b, getValidMoves(b, d), 1, playerIndex)
    IN  IF win.move # NullMove THEN win
        ELSE DefensiveAI_getMove(win.board, d, playerIndex)

AI_STRATEGIES ==
    {"random", "defensive", "offensive", "smart", "offensive-smart", "defensive-smart"}

\* strategy.getMove(game, playerIndex)
getMove(strategy, b, d, playerIndex) ==
    CASE strategy = "random" -> RandomAI_getMove(b, d, playerIndex)
      [] strategy = "defensive" -> DefensiveAI_getMove(b, d, playerIndex)
      [] strategy = "offensive" -> OffensiveAI_getMove(b, d, playerIndex)
      [] strategy = "smart" -> SmartAI_getMove(b, d, playerIndex)
      [] strategy = "offensive-smart" -> OffensiveSmartAI_getMove(b, d, playerIndex)
      [] strategy = "defensive-smart" -> DefensiveSmartAI_getMove(b, d, playerIndex)

\* getAIMove answering for a human player as well
getAIMoveForAnyPlayer(b, d, playerIndex) ==
    getMove(players[playerIndex].aiStrategy, b, d, playerIndex)

getAIMove(b, d, playerIndex) ==
    IF players[playerIndex].type # "ai" THEN Returned(NullMove, b)
    ELSE getMove(players[playerIndex].aiStrategy, b, d, playerIndex)

\* ------------------------------------------------------------- the machine
\* End-to-end scenario 1: on a 3 x 3 board, winLength 3, no gravity, two
\* teamless players, these calls of makeMove in this order.
Scenario1Moves == <<<<0, 0>>, <<1, 1>>, <<0, 1>>, <<1, 0>>, <<0, 2>>>>

IsScenario1Config ==
    /\ height = 3 /\ width = 3 /\ winLength = 3 /\ ~gravity
    /\ DOMAIN players = 0 .. 1
    /\ \A i \in DOMAIN players : players[i].team = NULL

\* The monitor of scenario 1: "following" with the number of its calls made so
\* far while the calls since construction or reset are exactly a prefix of the
\* scenario, "rejected" when one of its calls returned false, "off" otherwise.
ScenarioStart ==
    IF IsScenario1Config THEN [state |-> "following", step |-> 0]
    ELSE [state |-> "off", step |-> 0]

ScenarioAfter(row, col, returned) ==
    IF scenario.state = "following" /\ scenario.step < Len(Scenario1Moves)
       /\ <<row, col>> = Scenario1Moves[scenario.step + 1]
    THEN IF returned THEN [state |-> "following", step |-> scenario.step + 1]
         ELSE [state |-> "rejected", step |-> scenario.step]
    ELSE IF scenario.state = "rejected" THEN scenario
    ELSE [state |-> "off", step |-> 0]

\* isValidMove without the gravity-target test
isValidMoveAnywhere(row, col) ==
    IF gameOver THEN FALSE
    ELSE IF col < 0 \/ col >= width \/ row < 0 \/ row >= height THEN FALSE
    ELSE board[<<row, col>>] = NULL

\* isValidMove without the gameOver test
isValidMoveAfterGameOver(row, col) ==
    IF col < 0 \/ col >= width \/ row < 0 \/ row >= height THEN FALSE
    ELSE IF gravity /\ getGravityTarget(board, gravityDirection, row, col) # <<row, col>>
         THEN FALSE
    ELSE board[<<row, col>>] = NULL

isValidMove(row, col) ==
    IF gameOver THEN FALSE
    ELSE IF col < 0 \/ col >= width \/ row < 0 \/ row >= height THEN FALSE
    ELSE IF gravity /\ getGravityTarget(board, gravityDirection, row, col) # <<row, col>>
         THEN FALSE
    ELSE board[<<row, col>>] = NULL

\* rotatedDirection stepping the cycle backwards under 'clockwise'
rotatedDirectionBackwards(rnd) ==
    CASE gravityRotation.mode = "random" -> directions[rnd + 1]
      [] gravityRotation.mode = "clockwise" ->
           directions[((indexOf(gravityDirection) + 3) % 4) + 1]
      [] gravityRotation.mode = "counterclockwise" ->
           directions[((indexOf(gravityDirection) + 1) % 4) + 1]
      [] OTHER -> gravityDirection

\* the direction rotateGravityIfNeeded turns to; rnd is
\* Math.floor(Math.random() * directions.length)
rotatedDirection(rnd) ==
    CASE gravityRotation.mode = "random" -> directions[rnd + 1]
      [] gravityRotation.mode = "clockwise" ->
           directions[((indexOf(gravityDirection) + 1) % 4) + 1]
      [] gravityRotation.mode = "counterclockwise" ->
           directions[((indexOf(gravityDirection) + 3) % 4) + 1]
      [] OTHER -> gravityDirection

\* rotateGravityIfNeeded counting the turn before its early return
rotateGravityCountsEveryTurn(b, rnd) ==
    IF gravityRotation.mode \in {"null", "none"}
    THEN [turnCount |-> turnCount + 1, gravityDirection |-> gravityDirection, board |-> b]
    ELSE IF (turnCount + 1) % gravityRotation.turns = 0
         THEN [turnCount |-> turnCount + 1,
               gravityDirection |-> rotatedDirection(rnd),
               board |-> applyGravity(b, rotatedDirection(rnd))]
         ELSE [turnCount |-> turnCount + 1, gravityDirection |-> gravityDirection, board |-> b]

\* rotateGravityIfNeeded turning the direction without applyGravity()
rotateGravityWithoutResettling(b, rnd) ==
    IF gravityRotation.mode \in {"null", "none"}
    THEN [turnCount |-> turnCount, gravityDirection |-> gravityDirection, board |-> b]
    ELSE IF (turnCount + 1) % gravityRotation.turns = 0
         THEN [turnCount |-> turnCount + 1,
               gravityDirection |-> rotatedDirection(rnd),
               board |-> b]
         ELSE [turnCount |-> turnCount + 1, gravityDirection |-> gravityDirection, board |-> b]

\* rotateGravityIfNeeded resettling the pieces in the direction it turns from
rotateGravityResettlingTheOldWay(b, rnd) ==
    IF gravityRotation.mode \in {"null", "none"}
    THEN [turnCount |-> turnCount, gravityDirection |-> gravityDirection, board |-> b]
    ELSE IF (turnCount + 1) % gravityRotation.turns = 0
         THEN [turnCount |-> turnCount + 1,
               gravityDirection |-> rotatedDirection(rnd),
               board |-> applyGravity(b, gravityDirection)]
         ELSE [turnCount |-> turnCount + 1, gravityDirection |-> gravityDirection, board |-> b]

\* rotateGravityIfNeeded on board b: [turnCount, gravityDirection, board]
rotateGravityIfNeeded(b, rnd) ==
    IF gravityRotation.mode \in {"null", "none"}
    THEN [turnCount |-> turnCount, gravityDirection |-> gravityDirection, board |-> b]
    ELSE IF (turnCount + 1) % gravityRotation.turns = 0
         THEN [turnCount |-> turnCount + 1,
               gravityDirection |-> rotatedDirection(rnd),
               board |-> applyGravity(b, rotatedDirection(rnd))]
         ELSE [turnCount |-> turnCount + 1, gravityDirection |-> gravityDirection, board |-> b]

\* WinBranch passing the turn on as well
WinBranchPassesTurn(placed, winResult) ==
    /\ board' = placed
    /\ gameOver' = TRUE
    /\ winner' = winResult.winner
    /\ winningCells' = winResult.cells
    /\ currentPlayerIndex' = (currentPlayerIndex + 1) % Cardinality(PlayerIds)
    /\ UNCHANGED <<turnCount, gravityDirection>>

\* WinBranch leaving winningCells as it was
WinBranchForgettingTheCells(placed, winResult) ==
    /\ board' = placed
    /\ gameOver' = TRUE
    /\ winner' = winResult.winner
    /\ UNCHANGED <<currentPlayerIndex, winningCells, turnCount, gravityDirection>>

\* the branch taken when checkWin finds a run
WinBranch(placed, winResult) ==
    /\ board' = placed
    /\ gameOver' = TRUE
    /\ winner' = winResult.winner
    /\ winningCells' = winResult.cells
    /\ UNCHANGED <<currentPlayerIndex, turnCount, gravityDirection>>

\* DrawBranch forgetting to end the game
DrawBranchKeepsPlaying(placed) ==
    /\ board' = placed
    /\ winner' = NoWinner
    /\ UNCHANGED <<gameOver, currentPlayerIndex, winningCells, turnCount, gravityDirection>>

\* the branch taken when there is no run and the board is full
DrawBranch(placed) ==
    /\ board' = placed
    /\ gameOver' = TRUE
    /\ winner' = NoWinner
    /\ UNCHANGED <<currentPlayerIndex, winningCells, turnCount, gravityDirection>>

\* nextPlayerIndex stepping over a player
nextPlayerIndexSkipsOne == (currentPlayerIndex + 2) % Cardinality(PlayerIds)

nextPlayerIndex == (currentPlayerIndex + 1) % Cardinality(PlayerIds)

\* the branch that passes the turn on
AdvanceBranch(placed, rnd) ==
    \E rot \in {rotateGravityIfNeeded(placed, rnd)} :
        /\ currentPlayerIndex' = nextPlayerIndex
        /\ turnCount' = rot.turnCount
        /\ gravityDirection' = rot.gravityDirection
        /\ board' = rot.board
        /\ UNCHANGED <<gameOver, winner, winningCells>>

\* no player has moved yet
NoMoves == [p \in PlayerIds |-> 0]

\* reset() is not the last operation called
NotReset == [called |-> FALSE, gameOver |-> FALSE, winner |-> NoWinner,
             gravityDirection |-> "down"]

\* what the observation variables record of a makeMove(row, col) call
ObserveMove(row, col) ==
    /\ lastOp' = "makeMove"
    /\ okMoves' = IF ret' THEN okMoves + 1 ELSE okMoves
    /\ nonTerminalMoves' = IF ret' /\ ~gameOver' THEN nonTerminalMoves + 1
                           ELSE nonTerminalMoves
    /\ scenario' = ScenarioAfter(row, col, ret')
    /\ resetFrom' = NotReset
    /\ result' = NoWin
    /\ movesBy' = IF ret' THEN [movesBy EXCEPT ![currentPlayerIndex] = @ + 1] ELSE movesBy
    /\ UNCHANGED passesLog

makeMove(row, col, rnd) ==
    /\ UNCHANGED configVars
    /\ IF ~isValidMove(row, col)
       THEN /\ ret' = FALSE
            /\ UNCHANGED stateVars
       ELSE /\ ret' = TRUE
            /\ \E placed \in {[board EXCEPT ![<<row, col>>] = currentPlayerIndex]} :
               \E winResult \in {checkWin(placed)} :
                   IF winResult.found THEN WinBranch(placed, winResult)
                   ELSE IF isBoardFull(placed) THEN DrawBranch(placed)
                   ELSE AdvanceBranch(placed, rnd)
    /\ ObserveMove(row, col)

\* reset() leaving the gravity direction as it is
resetKeepsGravityDirection ==
    /\ board' = EmptyBoard
    /\ currentPlayerIndex' = 0
    /\ gameOver' = FALSE
    /\ winner' = NoWinner
    /\ winningCells' = <<>>
    /\ turnCount' = 0
    /\ gravityDirection' = gravityDirection
    /\ lastOp' = "reset"
    /\ ret' = FALSE
    /\ okMoves' = 0
    /\ nonTerminalMoves' = 0
    /\ scenario' = ScenarioStart
    /\ resetFrom' = [called |-> TRUE, gameOver |-> gameOver, winner |-> winner,
                     gravityDirection |-> gravityDirection]
    /\ result' = NoWin
    /\ movesBy' = NoMoves
    /\ UNCHANGED <<configVars, passesLog>>

reset ==
    /\ board' = EmptyBoard
    /\ currentPlayerIndex' = 0
    /\ gameOver' = FALSE
    /\ winner' = NoWinner
    /\ winningCells' = <<>>
    /\ turnCount' = 0
    /\ gravityDirection' = "down"
    /\ lastOp' = "reset"
    /\ ret' = FALSE
    /\ okMoves' = 0
    /\ nonTerminalMoves' = 0
    /\ scenario' = ScenarioStart
    /\ resetFrom' = [called |-> TRUE, gameOver |-> gameOver, winner |-> winner,
                     gravityDirection |-> gravityDirection]
    /\ result' = NoWin
    /\ movesBy' = NoMoves
    /\ UNCHANGED <<configVars, passesLog>>

\* --------------------------------------------------------- configurations
BoardSizes ==
    {d \in (2 .. MaxHeight) \X (2 .. MaxWidth) : d[1] * d[2] <= MaxCells}

Player(type, aiStrategy, team) == [type |-> type, aiStrategy |-> aiStrategy, team |-> team]

\* Team assignments of n players: each player teamless (NULL) or on a team, the
\* teams numbered 0, 1, ... in the order of their first member (a renumbering
\* of the teams changes the team labels only).
TeamAssignments(n) ==
    {t \in [0 .. (n - 1) -> {NULL} \cup (0 .. (MaxTeams - 1))] :
        \A i \in 0 .. (n - 1) :
            t[i] > 0 => \E j \in 0 .. (i - 1) : t[j] = t[i] - 1}

HumanPlayers(t) == [i \in DOMAIN t |-> Player("human", "random", t[i])]

PlayerConfigs ==
    UNION {{HumanPlayers(t) : t \in TeamAssignments(n)} : n \in 2 .. MaxPlayers}

\* some team has two members (only then does teamCollaboration matter)
HasTeammates(ps) ==
    \E i, j \in DOMAIN ps : i # j /\ ps[i].team # NULL /\ ps[i].team = ps[j].team

\* gravityRotation = null
NoRotation == [mode |-> "null", turns |-> 0]

RotationConfigs ==
    {NoRotation}
    \cup {[mode |-> m, turns |-> t] :
            m \in {"none", "clockwise", "counterclockwise", "random"},
            t \in 1 .. MaxRotationTurns}

\* the constructor: stores the configuration and calls reset()
Constructed ==
    /\ board = EmptyBoard
    /\ currentPlayerIndex = 0
    /\ gameOver = FALSE
    /\ winner = NoWinner
    /\ winningCells = <<>>
    /\ turnCount = 0
    /\ gravityDirection = "down"
    /\ lastOp = "init"
    /\ ret = FALSE
    /\ result = NoWin
    /\ okMoves = 0
    /\ nonTerminalMoves = 0
    /\ scenario = ScenarioStart
    /\ passesLog = <<>>
    /\ resetFrom = NotReset
    /\ movesBy = NoMoves

\* a game used without a GameUI
NoUI == hasGame = FALSE /\ timers = 0 /\ uiOp = "none" /\ aiThinking = FALSE

\* no Shut the Box page is loaded
NoBox ==
    /\ numBoxes = 0 /\ numDice = 0 /\ dieFaces = 0 /\ boxStrategy = "none"
    /\ openBoxes = {} /\ currentRoll = NULL /\ rollsThisGame = 0
    /\ boxGameOver = FALSE /\ currentScore = 0
    /\ totalGames = 0 /\ totalWins = 0 /\ scoreHistory = <<>>
    /\ historyGameNumber = <<>> /\ historyAverageScore = <<>>
    /\ manualMode = TRUE /\ rollTimers = 0 /\ comboButtons = <<>> /\ playing = "idle"
    /\ boxOp = "none" /\ boxRet = NULL /\ movesThisRoll = 0 /\ selected = <<>>

Teamless(ps) == \A i \in DOMAIN ps : ps[i].team = NULL

NumPlayers(ps) == Cardinality(DOMAIN ps)

\* The board of end-to-end scenario 1 (3 x 3, winLength 3, two teamless
\* players): without gravity, and with gravity under every deterministic
\* rotation schedule.
ScenarioBoardConfig ==
    /\ height = 3 /\ width = 3 /\ winLength = 3
    /\ NumPlayers(players) = 2 /\ Teamless(players)
    /\ IF gravity THEN gravityRotation.mode # "random" ELSE gravityRotation = NoRotation

\* Boards of at most MaxCells cells with teamless players: without gravity
\* (rotation absent or clockwise every turn, which then only counts turns and
\* turns the direction), and with gravity under every rotation schedule (the
\* random one for two players, every turn).
SmallTeamlessConfig ==
    /\ height * width <= MaxCells
    /\ Teamless(players)
    /\ IF gravity
       THEN gravityRotation.mode = "random" =>
                gravityRotation.turns = 1 /\ NumPlayers(players) = 2
       ELSE gravityRotation \in {NoRotation, [mode |-> "clockwise", turns |-> 1]}

\* Boards of at most MaxCells cells with teams, no rotation: with gravity for
\* every roster, without gravity for two players.
SmallTeamsConfig ==
    /\ height * width <= MaxCells
    /\ ~Teamless(players)
    /\ gravityRotation = NoRotation
    /\ ~gravity => NumPlayers(players) = 2

ConfigExplored == ScenarioBoardConfig \/ SmallTeamlessConfig \/ SmallTeamsConfig

Init ==
    /\ \E d \in BoardSizes \cup {<<3, 3>>} : height = d[1] /\ width = d[2]
    /\ winLength \in 2 .. MaxWinLength
    /\ gravity \in BOOLEAN
    /\ players \in PlayerConfigs
    /\ gravityRotation \in RotationConfigs
    /\ teamCollaboration \in (IF HasTeammates(players) THEN BOOLEAN ELSE {TRUE})
    /\ ConfigExplored
    /\ Constructed
    /\ NoUI
    /\ NoBox

\* makeMove may be called with any coordinates: every cell of the grid, and one
\* coordinate pair beyond each of its four edges
MoveInputs ==
    Cells \cup {<<-1, 0>>, <<height, 0>>, <<0, -1>>, <<0, width>>}

\* Math.random() matters only to the 'random' rotation mode
RandomDraws == IF gravityRotation.mode = "random" THEN 0 .. 3 ELSE {0}

MakeMove ==
    /\ \E m \in MoveInputs, rnd \in RandomDraws : makeMove(m[1], m[2], rnd)
    /\ UNCHANGED <<uiVars, boxVars>>

Reset == reset /\ UNCHANGED <<uiVars, boxVars>>

Next == MakeMove \/ Reset

Spec == Init /\ [][Next]_vars

\* ------------------------------------------- the functions on every board
\* Every board of the given size over the pieces of the players. These are the
\* boards the pure functions of the engine (applyGravity, getGravityTarget,
\* checkWin) are applied to, whether or not play can reach them.
AnyBoard == board \in [Cells -> PlayerIds \cup {NULL}]

\* a direct call of applyGravity()
applyGravityCall ==
    /\ Len(passesLog) < MaxCallsInARow
    /\ board' = applyGravity(board, gravityDirection)
    /\ passesLog' = Append(passesLog,
                           IF gravity THEN GravityLoop(board, gravityDirection, 0).passes
                           ELSE 0)
    /\ lastOp' = "applyGravity"
    /\ UNCHANGED <<configVars, currentPlayerIndex, gameOver, winner, winningCells,
                   turnCount, gravityDirection, ret, result, okMoves,
                   nonTerminalMoves, scenario, resetFrom, movesBy>>

\* a direct call of checkWin()
checkWinCall ==
    /\ lastOp # "checkWin"
    /\ result' = checkWin(board)
    /\ lastOp' = "checkWin"
    /\ UNCHANGED <<configVars, stateVars, ret, okMoves, nonTerminalMoves, scenario,
                   passesLog, resetFrom, movesBy>>

\* the state of a game in progress apart from its board and direction
InProgress ==
    /\ currentPlayerIndex = 0
    /\ gameOver = FALSE
    /\ winner = NoWinner
    /\ winningCells = <<>>
    /\ turnCount = 0
    /\ lastOp = "init"
    /\ ret = FALSE
    /\ result = NoWin
    /\ okMoves = 0
    /\ nonTerminalMoves = 0
    /\ scenario = [state |-> "off", step |-> 0]
    /\ passesLog = <<>>
    /\ resetFrom = NotReset
    /\ movesBy = NoMoves

\* applyGravity on every board of two teamless players, of at most MaxCells
\* cells or 3 x 3, in every direction, and with gravity disabled
InitGravityBoards ==
    /\ \E d \in BoardSizes \cup {<<3, 3>>} : height = d[1] /\ width = d[2]
    /\ winLength = 2
    /\ gravity \in BOOLEAN
    /\ players = HumanPlayers([i \in 0 .. 1 |-> NULL])
    /\ gravityRotation = NoRotation
    /\ teamCollaboration = TRUE
    /\ gravityDirection \in (IF gravity THEN {"down", "right", "up", "left"} ELSE {"down"})
    /\ AnyBoard
    /\ InProgress
    /\ NoUI
    /\ NoBox

ApplyGravity == applyGravityCall /\ UNCHANGED <<uiVars, boxVars>>

NextGravityBoards == ApplyGravity

SpecGravityBoards == InitGravityBoards /\ [][NextGravityBoards]_vars

\* a direct call of getGravityTarget(row, col)
getGravityTargetCall(row, col) ==
    /\ result' = [from |-> <<row, col>>,
                  target |-> getGravityTarget(board, gravityDirection, row, col)]
    /\ lastOp' = "getGravityTarget"
    /\ UNCHANGED <<configVars, stateVars, ret, okMoves, nonTerminalMoves, scenario,
                   passesLog, resetFrom, movesBy>>

\* getGravityTarget and applyGravity on every board of at most MaxCells cells
\* of two teamless players, in every direction, and with gravity disabled
InitTargetBoards ==
    /\ \E d \in BoardSizes : height = d[1] /\ width = d[2]
    /\ winLength = 2
    /\ gravity \in BOOLEAN
    /\ players = HumanPlayers([i \in 0 .. 1 |-> NULL])
    /\ gravityRotation = NoRotation
    /\ teamCollaboration = TRUE
    /\ gravityDirection \in {"down", "right", "up", "left"}
    /\ AnyBoard
    /\ InProgress
    /\ NoUI
    /\ NoBox

GetGravityTarget ==
    /\ \E c \in Cells : getGravityTargetCall(c[1], c[2])
    /\ UNCHANGED <<uiVars, boxVars>>

NextTargetBoards == GetGravityTarget \/ ApplyGravity

SpecTargetBoards == InitTargetBoards /\ [][NextTargetBoards]_vars

\* Rosters of up to MaxBoardPlayers players for the win detector: the team
\* assignments in which the players of a team follow one another.
BoardTeamAssignments(n) ==
    {t \in TeamAssignments(n) :
        \A i, j \in 0 .. (n - 1) :
            (i < j /\ t[i] # NULL /\ t[i] = t[j]) => \A k \in i .. j : t[k] = t[i]}

\* checkWin on every board: 3 x 3 boards for two players who are teamless or
\* teammates, boards of at most MaxCells cells for two and three players, and
\* 2 x 2 boards for up to MaxBoardPlayers players
InitWinBoards ==
    /\ \E d \in BoardSizes \cup {<<3, 3>>} : height = d[1] /\ width = d[2]
    /\ winLength \in 2 .. MaxWinLength
    /\ gravity = FALSE
    /\ \E n \in 2 .. MaxBoardPlayers :
           /\ \E t \in BoardTeamAssignments(n) : players = HumanPlayers(t)
           /\ \/ n = 2 /\ height * width <= MaxCells
              \/ n = 2 /\ winLength = 3 /\ players[0].team = players[1].team
              \/ n = 3 /\ height * width <= MaxCells /\ height <= width
              \/ height * width <= 4
    /\ gravityRotation = NoRotation
    /\ teamCollaboration \in (IF HasTeammates(players) THEN BOOLEAN ELSE {TRUE})
    /\ gravityDirection = "down"
    /\ AnyBoard
    /\ InProgress
    /\ NoUI
    /\ NoBox

CheckWin == checkWinCall /\ UNCHANGED <<uiVars, boxVars>>

NextWinBoards == CheckWin

SpecWinBoards == InitWinBoards /\ [][NextWinBoards]_vars

\* ------------------------------------------------------- games with an AI
\* a direct call of strategy.getValidMoves(game)
getValidMovesCall ==
    /\ result' = [moves |-> getValidMoves(board, gravityDirection)]
    /\ lastOp' = "getValidMoves"
    /\ resetFrom' = NotReset
    /\ UNCHANGED <<configVars, stateVars, ret, okMoves, nonTerminalMoves, scenario,
                   passesLog, movesBy>>

\* a call of getAIMove(); the probes write to the board, and Math.random()
\* selects any index of the move list, should the strategy draw one
getAIMoveCall ==
    /\ \E r \in {getAIMove(board, gravityDirection, currentPlayerIndex)} :
           /\ board' = r.board
           /\ IF r.move = RandomPick
              THEN \E rnd \in 0 .. (Max(1, Len(getValidMoves(r.board, gravityDirection))) - 1) :
                       result' = [move |-> PickRandom(getValidMoves(r.board, gravityDirection), rnd)]
              ELSE result' = [move |-> r.move]
    /\ lastOp' = "getAIMove"
    /\ resetFrom' = NotReset
    /\ UNCHANGED <<configVars, currentPlayerIndex, gameOver, winner, winningCells,
                   turnCount, gravityDirection, ret, okMoves, nonTerminalMoves,
                   scenario, passesLog, movesBy>>

\* player h is human, the others are AIs playing strategy s
AIPlayersWithHuman(t, s, h) ==
    [i \in DOMAIN t |-> IF i = h THEN Player("human", "random", t[i])
                        ELSE Player("ai", s, t[i])]

AIPlayers(t, s) == AIPlayersWithHuman(t, s, 0)

AIPlayerConfigs ==
    UNION {{AIPlayersWithHuman(t, s, h) :
               t \in TeamAssignments(n), s \in AI_STRATEGIES, h \in 0 .. 1} :
              n \in 2 .. MaxPlayers}

\* Games against AIs on boards of two rows and at most MaxCells cells: no
\* gravity, gravity down, or gravity turning clockwise every turn (which
\* brings every direction about); two teamless players with every strategy,
\* and three players, two of them teammates, without rotation. The human
\* plays first, or second as well when gravity turns (the AI then moves under
\* each of the four directions).
AIConfigExplored ==
    /\ height = 2 /\ height * width <= MaxCells /\ winLength <= width
    /\ gravityRotation \in {NoRotation, [mode |-> "clockwise", turns |-> 1]}
    /\ ~gravity => gravityRotation = NoRotation
    /\ players[0].type = "ai" => gravityRotation # NoRotation
    /\ \/ NumPlayers(players) = 2 /\ Teamless(players)
       \/ /\ NumPlayers(players) = 3 /\ HasTeammates(players) /\ ~Teamless(players)
          /\ players[2].team = NULL
          /\ gravityRotation = NoRotation
          /\ width = 3 /\ winLength = 3

InitAI ==
    /\ \E d \in BoardSizes : height = d[1] /\ width = d[2]
    /\ winLength \in 2 .. MaxWinLength
    /\ gravity \in BOOLEAN
    /\ players \in AIPlayerConfigs
    /\ gravityRotation \in RotationConfigs
    /\ teamCollaboration \in (IF HasTeammates(players) THEN BOOLEAN ELSE {TRUE})
    /\ AIConfigExplored
    /\ Constructed
    /\ NoUI
    /\ NoBox

\* Games of a human and an offensive AI on the 3 x 3 board, winLength 3,
\* without rotation: teamless players with and without gravity, and teammates
\* without gravity.
InitOffensiveAI ==
    /\ height = 3 /\ width = 3 /\ winLength = 3
    /\ gravity \in BOOLEAN
    /\ \E t \in {[i \in 0 .. 1 |-> NULL], [i \in 0 .. 1 |-> 0]} :
           players = AIPlayers(t, "offensive")
    /\ gravity => Teamless(players)
    /\ gravityRotation = NoRotation
    /\ teamCollaboration \in (IF HasTeammates(players) THEN BOOLEAN ELSE {TRUE})
    /\ Constructed
    /\ NoUI
    /\ NoBox

GetValidMoves == getValidMovesCall /\ UNCHANGED <<uiVars, boxVars>>

GetAIMove == getAIMoveCall /\ UNCHANGED <<uiVars, boxVars>>

NextAI == MakeMove \/ Reset \/ GetValidMoves \/ GetAIMove

SpecAI == InitAI /\ [][NextAI]_vars

NextOffensiveAI == MakeMove \/ GetAIMove

SpecOffensiveAI == InitOffensiveAI /\ [][NextOffensiveAI]_vars

\* Games of a human and an AI playing Smart, Offensive-Smart or
\* Defensive-Smart on the 3 x 3 board, winLength 3, two teamless players, with
\* gravity: without rotation, or turning clockwise every turn or every second
\* turn; the human plays first or second.
InitSmartAI ==
    /\ height = 3 /\ width = 3 /\ winLength = 3
    /\ gravity = TRUE
    /\ \E s \in {"smart", "offensive-smart", "defensive-smart"}, h \in 0 .. 1 :
           players = AIPlayersWithHuman([i \in 0 .. 1 |-> NULL], s, h)
    /\ gravityRotation \in {NoRotation} \cup
                           {[mode |-> "clockwise", turns |-> t] : t \in 1 .. MaxRotationTurns}
    /\ teamCollaboration = TRUE
    /\ Constructed
    /\ NoUI
    /\ NoBox

NextSmartAI == MakeMove \/ GetAIMove

SpecSmartAI == InitSmartAI /\ [][NextSmartAI]_vars

\* ------------------------------------------------------------------ GameUI
\* processAITurn() that schedules nothing
processAITurnNeverSchedules(has, over, playerIndex) == 0

\* processAITurn(): schedules a timer when there is a game in progress whose
\* current player is an AI; given the state the caller leaves, the number of
\* timers it adds
processAITurn(has, over, playerIndex) ==
    IF ~has \/ over THEN 0
    ELSE IF players[playerIndex].type # "ai" THEN 0
    ELSE 1

\* Start Game: a new ConnectGame built from the form, whose values stay as
\* they are, so that the new game is in the state reset() leaves; then
\* processAITurn()
startGame ==
    /\ timers < MaxTimers
    /\ reset
    /\ hasGame' = TRUE
    /\ timers' = timers + processAITurn(TRUE, FALSE, 0)
    /\ aiThinking' = (aiThinking \/ processAITurn(TRUE, FALSE, 0) = 1)
    /\ uiOp' = "startGame"

resetGame ==
    /\ timers < MaxTimers
    /\ uiOp' = "resetGame"
    /\ IF hasGame
       THEN /\ reset
            /\ timers' = timers + processAITurn(TRUE, FALSE, 0)
            /\ aiThinking' = (aiThinking \/ processAITurn(TRUE, FALSE, 0) = 1)
            /\ UNCHANGED hasGame
       ELSE UNCHANGED <<configVars, stateVars, obsVars, hasGame, timers, aiThinking>>

\* a click on cell (row, col)
handleCellClick(row, col, rnd) ==
    /\ timers < MaxTimers
    /\ uiOp' = "handleCellClick"
    /\ UNCHANGED hasGame
    /\ IF ~hasGame \/ gameOver \/ players[currentPlayerIndex].type = "ai"
       THEN /\ ret' = FALSE
            /\ UNCHANGED <<configVars, stateVars, lastOp, result, okMoves,
                           nonTerminalMoves, scenario, passesLog, resetFrom, movesBy,
                           timers, aiThinking>>
       ELSE /\ \E t \in {getGravityTarget(board, gravityDirection, row, col)} :
                   makeMove(t[1], t[2], rnd)
            /\ timers' = IF ret' THEN timers + processAITurn(TRUE, gameOver', currentPlayerIndex')
                         ELSE timers
            /\ aiThinking' = (aiThinking
                               \/ (ret' /\ processAITurn(TRUE, gameOver', currentPlayerIndex') = 1))

\* the value getAIMove() returns to the timer callback, Math.random() having
\* drawn index rnd (the probes of getAIMove leave the board as it was)
aiMove(rnd) ==
    IF getAIMove(board, gravityDirection, currentPlayerIndex).move = RandomPick
    THEN PickRandom(getValidMoves(board, gravityDirection), rnd)
    ELSE getAIMove(board, gravityDirection, currentPlayerIndex).move

\* a processAITurn timer fires
timerFires(move, rnd) ==
    /\ timers > 0
    /\ uiOp' = "timer"
    /\ UNCHANGED hasGame
    /\ IF move \in {NullMove, Undefined, Throws}
       THEN /\ ret' = FALSE
            /\ timers' = timers - 1
            /\ UNCHANGED <<configVars, stateVars, lastOp, result, okMoves,
                           nonTerminalMoves, scenario, passesLog, resetFrom, movesBy,
                           aiThinking>>
       ELSE /\ makeMove(move[1], move[2], rnd)
            /\ timers' = timers - 1 + processAITurn(TRUE, gameOver', currentPlayerIndex')
            /\ aiThinking' = (processAITurn(TRUE, gameOver', currentPlayerIndex') = 1)

\* The page: boards of two rows and at most MaxCells cells, with and without
\* gravity (no rotation), two teamless players of whom each is a human or an
\* AI playing the random or the smart strategy.
UIPlayerConfigs ==
    {[i \in 0 .. 1 |-> Player(ty[i], s, NULL)] :
        ty \in [0 .. 1 -> {"human", "ai"}], s \in {"random", "smart"}}

InitUI ==
    /\ \E d \in BoardSizes : height = d[1] /\ width = d[2]
    /\ height = 2
    /\ winLength \in 2 .. MaxWinLength
    /\ winLength <= width
    /\ gravity \in BOOLEAN
    /\ players \in UIPlayerConfigs
    /\ (\A i \in 0 .. 1 : players[i].type = "human") => players[0].aiStrategy = "random"
    /\ gravityRotation = NoRotation
    /\ teamCollaboration = TRUE
    /\ Constructed
    /\ hasGame = FALSE
    /\ timers = 0
    /\ uiOp = "init"
    /\ aiThinking = FALSE
    /\ NoBox

StartGame == startGame /\ UNCHANGED boxVars

ResetGame == resetGame /\ UNCHANGED boxVars

HandleCellClick ==
    /\ \E c \in Cells, rnd \in RandomDraws : handleCellClick(c[1], c[2], rnd)
    /\ UNCHANGED boxVars

TimerFires ==
    /\ UNCHANGED boxVars
    /\ \E i \in 0 .. (Max(1, Len(getValidMoves(board, gravityDirection))) - 1),
       rnd \in RandomDraws :
        \E move \in {aiMove(i)} : timerFires(move, rnd)

NextUI == StartGame \/ ResetGame \/ HandleCellClick \/ TimerFires

SpecUI == InitUI /\ [][NextUI]_vars

\* The page with a player list of two strategies: player 0 is a human or a
\* Defensive AI, player 1 a human or a Random or Offensive AI; boards as in
\* InitUI.
InitUITwoStrategies ==
    /\ \E d \in BoardSizes : height = d[1] /\ width = d[2]
    /\ height = 2
    /\ winLength \in 2 .. MaxWinLength
    /\ winLength <= width
    /\ gravity \in BOOLEAN
    /\ \E ty \in [0 .. 1 -> {"human", "ai"}], s \in {"random", "offensive"} :
           players = [i \in 0 .. 1 |->
                         Player(ty[i],
                                IF ty[i] = "human" THEN "random"
                                ELSE IF i = 0 THEN "defensive" ELSE s,
                                NULL)]
    /\ gravityRotation = NoRotation
    /\ teamCollaboration = TRUE
    /\ Constructed
    /\ hasGame = FALSE
    /\ timers = 0
    /\ uiOp = "init"
    /\ aiThinking = FALSE
    /\ NoBox

SpecUITwoStrategies == InitUITwoStrategies /\ [][NextUI]_vars

\* A game played to its end on the page: Start Game is pressed once and Reset
\* never; boards as in InitUI, with gravity also under a clockwise rotation
\* every turn. Every scheduled timer eventually fires, and a human whose turn
\* it is eventually clicks a cell that takes the move.
InitUIPlayedOut ==
    /\ \E d \in BoardSizes : height = d[1] /\ width = d[2]
    /\ height = 2
    /\ winLength \in 2 .. MaxWinLength
    /\ winLength <= width
    /\ gravity \in BOOLEAN
    /\ players \in UIPlayerConfigs
    /\ (\A i \in 0 .. 1 : players[i].type = "human") => players[0].aiStrategy = "random"
    /\ gravityRotation \in (IF gravity THEN {NoRotation, [mode |-> "clockwise", turns |-> 1]}
                            ELSE {NoRotation})
    /\ teamCollaboration = TRUE
    /\ Constructed
    /\ hasGame = FALSE
    /\ timers = 0
    /\ uiOp = "init"
    /\ aiThinking = FALSE
    /\ NoBox

StartGameOnce == ~hasGame /\ startGame /\ UNCHANGED boxVars

NextUIPlayedOut == StartGameOnce \/ HandleCellClick \/ TimerFires

\* The steps of TimerFires and the steps of HandleCellClick that take a move,
\* described by what they do to the variables that count them. Whether such a
\* step is possible is then a question about the current state alone (a timer
\* is pending; it is a human's turn and some cell is a valid move, every
\* valid move being its own gravity target), and the steps of
\* NextUIPlayedOut that satisfy the descriptions are exactly those of the two
\* handlers.
playVars == <<uiOp, timers, ret, okMoves>>

TimerFired ==
    /\ timers > 0
    /\ uiOp' = "timer"
    /\ \/ timers' = timers - 1 /\ ret' = FALSE /\ okMoves' = okMoves
       \/ timers' \in {timers - 1, timers} /\ ret' \in BOOLEAN
          /\ okMoves' = okMoves + (IF ret' THEN 1 ELSE 0)

ClickTakesTheMove ==
    /\ timers < MaxTimers
    /\ hasGame
    /\ players[currentPlayerIndex].type # "ai"
    /\ \E m \in Cells : isValidMove(m[1], m[2])
    /\ uiOp' = "handleCellClick"
    /\ ret' = TRUE
    /\ okMoves' = okMoves + 1
    /\ timers' \in {timers, timers + 1}

\* setTimeout runs every scheduled callback after its delay, and the human
\* at the page goes on playing
SpecUIPlayedOut ==
    /\ InitUIPlayedOut
    /\ [][NextUIPlayedOut]_vars
    /\ WF_playVars(TimerFired)
    /\ WF_playVars(ClickTakesTheMove)

\* ------------------------------------------------- vocabulary of the claims
\* the cell next to (row, col) along direction d
StepAlong(d, row, col) == <<row + GravityStep(d)[1], col + GravityStep(d)[2]>>

\* (row, col) is its own gravity target: the next cell along the current
\* direction is outside the grid or occupied
RestsAt(row, col) ==
    LET n == StepAlong(gravityDirection, row, col)
    IN  IF InBounds(n[1], n[2]) THEN board[n] # NULL ELSE TRUE

\* the three reasons for which a move on a game in progress is refused
MoveRefused(row, col) ==
    IF ~InBounds(row, col) THEN TRUE
    ELSE IF board[<<row, col>>] # NULL THEN TRUE
    ELSE gravity /\ ~RestsAt(row, col)

Placed(m) == [board EXCEPT ![m] = currentPlayerIndex]

AxisSet == {<<0, 1>>, <<1, 0>>, <<1, 1>>, <<1, -1>>}

\* the winLength cells from origin along axis dd
LineFrom(origin, dd) ==
    [i \in 1 .. winLength |-> <<origin[1] + (i - 1) * dd[1], origin[2] + (i - 1) * dd[2]>>]

\* q's pieces extend a run of p's
SameSide(p, q) ==
    IF q = p THEN TRUE
    ELSE teamCollaboration /\ players[p].team # NULL /\ players[q].team = players[p].team

\* every cell of the line is on the grid and holds a piece on the side of the
\* piece on its first cell
IsRun(b, line) ==
    /\ \A i \in 1 .. Len(line) : InBounds(line[i][1], line[i][2])
    /\ \A i \in 1 .. Len(line) : b[line[i]] # NULL
    /\ \A i \in 1 .. Len(line) : SameSide(b[line[1]], b[line[i]])

HasRun(b) == \E o \in Cells, dd \in AxisSet : IsRun(b, LineFrom(o, dd))

\* the label of a win whose run starts on a piece of player p
RunLabel(p) ==
    IF players[p].team # NULL THEN "Team " \o ToDecimal(players[p].team + 1)
    ELSE "Player " \o ToHexUpper(p)

PieceCount(b, p) == Cardinality({c \in Cells : b[c] = p})

RotationActive == gravityRotation.mode \notin {"null", "none"}

\* ---------------------------------------------------------------- claim C1
C1_Outcome(row, col) ==
    IF MoveRefused(row, col) THEN ret' = FALSE /\ UNCHANGED stateVars
    ELSE ret' = TRUE

\* C1: on a game that is not over, makeMove(row, col) returns false and leaves
\* board, currentPlayerIndex, gameOver, winner, winningCells, turnCount and
\* gravityDirection unchanged whenever (row, col) is out of bounds, occupied,
\* or (gravity enabled) not its own gravity target; otherwise it returns true.
C1_RefusedMovesChangeNothing ==
    [][gameOver \/ \A m \in MoveInputs, rnd \in RandomDraws :
                      C1_Outcome(m[1], m[2]) \/ ~makeMove(m[1], m[2], rnd)]_vars

\* a call was refused on a game in progress, under gravity, after some moves
C1_Witness ==
    lastOp = "makeMove" /\ ~ret /\ ~gameOver /\ gravity /\ okMoves > 1
    /\ gravityDirection # "down"

\* ---------------------------------------------------------------- claim C2
\* C2: once gameOver is true it stays true, and every makeMove call returns
\* false and changes no field of the game state, until reset() is called.
C2_GameOverIsFinal ==
    [][gameOver =>
         /\ gameOver' \/ reset
         /\ \A m \in MoveInputs, rnd \in RandomDraws :
                (ret' = FALSE /\ UNCHANGED stateVars) \/ ~makeMove(m[1], m[2], rnd)]_vars

\* a call was refused on a finished game that still has an empty cell
C2_Witness ==
    gameOver /\ lastOp = "makeMove" /\ ~ret /\ \E c \in Cells : board[c] = NULL

\* ---------------------------------------------------------------- claim C3
C3_WinOutcome(m) ==
    /\ ret' = TRUE
    /\ gameOver' = TRUE
    /\ board' = Placed(m)
    /\ winningCells' # <<>>
    /\ \E dd \in AxisSet : winningCells' = LineFrom(winningCells'[1], dd)
    /\ IsRun(board', winningCells')
    /\ winner' = RunLabel(board'[winningCells'[1]])
    /\ UNCHANGED <<currentPlayerIndex, turnCount, gravityDirection>>

C3_Scenario1 ==
    /\ scenario.state # "rejected"
    /\ (scenario.state = "following" /\ scenario.step < 5) => ~gameOver
    /\ (scenario.state = "following" /\ scenario.step = 5) =>
           /\ gameOver
           /\ winner = "Player 0"
           /\ winningCells = <<<<0, 0>>, <<0, 1>>, <<0, 2>>>>

\* C3: when a successful makeMove places a piece after which there is a run,
\* that call sets gameOver, sets winner to the run's label and winningCells to
\* the run's cells in order from its origin, and neither advances
\* currentPlayerIndex, nor increments turnCount, nor rotates gravity; on a 3x3
\* board, winLength 3, no gravity, two teamless players, the moves (0,0),
\* (1,1), (0,1), (1,0), (0,2) all succeed and end with player 0 as winner and
\* winningCells (0,0), (0,1), (0,2).
C3_WinEndsTheGame ==
    /\ []C3_Scenario1
    /\ [][\A m \in Cells, rnd \in RandomDraws :
            \/ ~isValidMove(m[1], m[2])
            \/ C3_WinOutcome(m)
            \/ ~makeMove(m[1], m[2], rnd)
            \/ ~HasRun(Placed(m))]_vars

\* scenario 1 has been played to its end
C3_Witness ==
    /\ scenario = [state |-> "following", step |-> 5]
    /\ gameOver /\ winner = "Player 0" /\ currentPlayerIndex = 0

\* ---------------------------------------------------------------- claim C6
C6_FullBoardOutcome(m) ==
    /\ ret' = TRUE
    /\ gameOver' = TRUE
    /\ IF HasRun(Placed(m)) THEN winner' # NoWinner /\ winningCells' # <<>>
       ELSE winner' = NoWinner /\ winningCells' = <<>>

\* C6: a successful makeMove that makes no run and fills the last empty cell
\* ends the game with gameOver, winner null and winningCells empty; if the
\* move that fills the last empty cell completes a run, the game ends as a
\* win, not a draw.
C6_FullBoardEndsTheGame ==
    [][\A m \in Cells, rnd \in RandomDraws :
         \/ \E c \in Cells \ {m} : board[c] = NULL
         \/ ~isValidMove(m[1], m[2])
         \/ C6_FullBoardOutcome(m)
         \/ ~makeMove(m[1], m[2], rnd)]_vars

\* a game has ended in a draw
C6_Witness ==
    gameOver /\ winner = NoWinner /\ winningCells = <<>> /\ ret
    /\ \A c \in Cells : board[c] # NULL

\* ---------------------------------------------------------------- claim C7
C7_MoveOutcome(m) ==
    /\ ret' = TRUE
    /\ \A p \in PlayerIds :
           PieceCount(board', p) =
               PieceCount(board, p) + (IF p = currentPlayerIndex THEN 1 ELSE 0)
    /\ (~gravity \/ gravityDirection' = gravityDirection) => board' = Placed(m)
    /\ ~gameOver' => currentPlayerIndex' = (currentPlayerIndex + 1) % NumPlayers(players)

C7_TurnOrder ==
    /\ currentPlayerIndex \in 0 .. (NumPlayers(players) - 1)
    /\ currentPlayerIndex = nonTerminalMoves % NumPlayers(players)

\* C7: every successful makeMove writes the index of the player who was
\* current at the call into the chosen cell, and every successful
\* non-terminal makeMove sets currentPlayerIndex to (old + 1) mod playerCount;
\* so currentPlayerIndex is always in 0..playerCount-1 and, after k successful
\* non-terminal moves since reset, equals k mod playerCount.
C7_PlayersMoveInTurn ==
    /\ []C7_TurnOrder
    /\ [][\A m \in Cells, rnd \in RandomDraws :
            \/ ~isValidMove(m[1], m[2])
            \/ C7_MoveOutcome(m)
            \/ ~makeMove(m[1], m[2], rnd)]_vars

\* the turn has come back to the first of three players
C7_Witness ==
    NumPlayers(players) = 3 /\ nonTerminalMoves = 3 /\ currentPlayerIndex = 0
    /\ PieceCount(board, 2) = 1

ClockwiseEveryTurn ==
    gravity /\ gravityRotation = [mode |-> "clockwise", turns |-> 1]

\* C9: with gravity enabled and gravityRotation {mode: 'clockwise', turns: 1},
\* starting from 'down' after reset, the direction after the k-th successful
\* non-terminal move is the k-th element (mod 4) of the cycle down, right, up,
\* left; after 4 such moves it is 'down' again.
C9_ClockwiseCycle ==
    ClockwiseEveryTurn =>
        gravityDirection =
            CASE nonTerminalMoves % 4 = 0 -> "down"
              [] nonTerminalMoves % 4 = 1 -> "right"
              [] nonTerminalMoves % 4 = 2 -> "up"
              [] nonTerminalMoves % 4 = 3 -> "left"

\* four moves have brought the direction back to 'down'
C9_Witness ==
    ClockwiseEveryTurn /\ nonTerminalMoves = 4 /\ gravityDirection = "down"

\* ------------------------------------------------------------------- C4
\* the n cells from origin along axis dd are on the grid and all hold a piece
\* of the player on the first of them
SoloLine(b, origin, dd, n) ==
    /\ \A i \in 0 .. (n - 1) : InBounds(origin[1] + i * dd[1], origin[2] + i * dd[2])
    /\ b[origin] # NULL
    /\ \A i \in 0 .. (n - 1) : b[<<origin[1] + i * dd[1], origin[2] + i * dd[2]>>] = b[origin]

HasSoloLine(b, n) == \E o \in Cells, dd \in AxisSet : SoloLine(b, o, dd, n)

\* C4: with teamless players checkWin reports a win exactly when some line of
\* winLength consecutive in-bounds cells along the horizontal, the vertical,
\* the down-right or the down-left diagonal is entirely occupied by one player;
\* a board whose longest same-player run has winLength - 1 cells yields null.
C4_WinIffLineOfOnePlayer ==
    (lastOp = "checkWin" /\ Teamless(players)) =>
        /\ result.found <=> HasSoloLine(board, winLength)
        /\ (HasSoloLine(board, winLength - 1) /\ ~HasSoloLine(board, winLength)) =>
               result = NoWin

\* a win found along the down-left diagonal of a 3 x 3 board
C4_Witness ==
    /\ lastOp = "checkWin"
    /\ Teamless(players)
    /\ winLength = 3
    /\ result.found
    /\ result.winner = "Player 1"
    /\ result.cells = <<<<0, 2>>, <<1, 1>>, <<2, 0>>>>

\* ------------------------------------------------------------------- C5
\* the cells of the line are on the grid and hold pieces of two or more
\* different players, all of team t
TeamLine(b, line, t) ==
    /\ \A i \in 1 .. Len(line) : InBounds(line[i][1], line[i][2])
    /\ \A i \in 1 .. Len(line) : b[line[i]] # NULL
    /\ \A i \in 1 .. Len(line) : players[b[line[i]]].team = t
    /\ \E i, j \in 1 .. Len(line) : b[line[i]] # b[line[j]]

TeamIds == {players[i].team : i \in PlayerIds} \ {NULL}

TeamsWithLine(b) ==
    {t \in TeamIds : \E o \in Cells, dd \in AxisSet : TeamLine(b, LineFrom(o, dd), t)}

TeamLabel(t) == "Team " \o ToDecimal(t + 1)

\* C5 as stated: on a board where some line of winLength consecutive cells is
\* occupied by two or more players of one team and no single player has a run
\* of winLength, checkWin reports that team's label when teamCollaboration is
\* true, and null when it is false.
C5_TeamLineWinsForThatTeam ==
    (lastOp = "checkWin" /\ ~HasSoloLine(board, winLength)) =>
        \A t \in TeamsWithLine(board) :
            IF teamCollaboration
            THEN result.found /\ result.winner = TeamLabel(t)
            ELSE result = NoWin

\* C5: on such a board checkWin reports, when teamCollaboration is true, a win
\* for a team that has such a line, which is that team whenever it is the only
\* one that has a line; when teamCollaboration is false it reports null.
C5_TeamLineWinsForATeamWithALine ==
    (lastOp = "checkWin" /\ ~HasSoloLine(board, winLength)) =>
        \A t \in TeamsWithLine(board) :
            IF teamCollaboration
            THEN /\ result.found
                 /\ \E u \in TeamsWithLine(board) : result.winner = TeamLabel(u)
                 /\ TeamsWithLine(board) = {t} => result.winner = TeamLabel(t)
            ELSE result = NoWin

\* a line of three made by two teammates together, reported for their team
C5_Witness ==
    /\ lastOp = "checkWin"
    /\ teamCollaboration
    /\ winLength = 3
    /\ ~HasSoloLine(board, winLength)
    /\ TeamsWithLine(board) = {0}
    /\ result.found
    /\ result.winner = "Team 1"

\* ------------------------------------------------------------------ C10
\* C10: applyGravity is idempotent: on the board one call leaves, for every
\* direction, a second call yields the same board and moves no piece (its
\* first pass changes nothing).
C10_ApplyGravityIdempotent ==
    /\ lastOp = "applyGravity" => applyGravity(board, gravityDirection) = board
    /\ (lastOp = "applyGravity" /\ gravity) =>
           GravityLoop(board, gravityDirection, 0).passes = 1
    /\ Len(passesLog) >= 2 => passesLog[2] <= 1

\* two calls in a row on a 3 x 3 board: the first moved pieces upwards, the
\* second found nothing to move
C10_Witness ==
    /\ passesLog = <<2, 1>>
    /\ gravityDirection = "up"
    /\ height = 3
    /\ Cardinality({c \in Cells : board[c] # NULL}) >= 4

\* ------------------------------------------------------------------ C11
\* the state of a freshly constructed game
FreshGame ==
    /\ board = [c \in (0 .. (height - 1)) \X (0 .. (width - 1)) |-> NULL]
    /\ currentPlayerIndex = 0
    /\ gameOver = FALSE
    /\ winner = NoWinner
    /\ winningCells = <<>>
    /\ turnCount = 0
    /\ gravityDirection = "down"

\* C11: from any reachable state reset() yields an all-empty board of the same
\* dimensions with currentPlayerIndex 0, gameOver false, winner null,
\* winningCells empty, turnCount 0 and gravityDirection 'down', and leaves
\* players, width, height, winLength, gravity, gravityRotation and
\* teamCollaboration unchanged: the state of a freshly constructed game with
\* the same configuration.
C11_ResetRestoresAFreshGame ==
    [][lastOp' = "reset" => (FreshGame' /\ UNCHANGED configVars)]_vars

\* reset() was called on a won game whose gravity pointed to the left
C11_Witness ==
    /\ lastOp = "reset"
    /\ resetFrom.called /\ resetFrom.gameOver /\ resetFrom.winner # NoWinner
    /\ resetFrom.gravityDirection = "left"
    /\ FreshGame

\* ------------------------------------------------------------------ C12
\* gravity pulls down for the whole game
GravityStaysDown == gravity /\ ~RotationActive

ColumnCount(b, col) == Cardinality({r \in Rows : b[<<r, col>>] # NULL})

\* the pieces of every column fill its bottom rows, and the gravity target of
\* every empty cell is the lowest empty row of its column
C12_ColumnsStackBottomUp ==
    GravityStaysDown =>
        /\ gravityDirection = "down"
        /\ \A c \in Cells :
               board[c] # NULL <=> c[1] >= height - ColumnCount(board, c[2])
        /\ \A c \in Cells :
               board[c] = NULL =>
                   getGravityTarget(board, gravityDirection, c[1], c[2]) =
                       <<height - 1 - ColumnCount(board, c[2]), c[2]>>

C12_MoveOutcome(m) ==
    IF ColumnCount(board, m[2]) = height
    THEN ret' = FALSE /\ UNCHANGED stateVars
    ELSE ret' = TRUE =>
             /\ m[1] = height - 1 - ColumnCount(board, m[2])
             /\ board' = Placed(m)

\* C12: with gravity 'down' and no rotation, successive successful placements
\* into one column occupy rows height-1, height-2, ..., 0 in that order (the
\* gravity target of any empty cell of the column is its lowest empty row);
\* once the column holds height pieces, every makeMove at any row of it
\* returns false and changes nothing.
C12_ColumnFillsThenRefuses ==
    /\ []C12_ColumnsStackBottomUp
    /\ [][\A m \in Cells, rnd \in RandomDraws :
            \/ ~GravityStaysDown
            \/ C12_MoveOutcome(m)
            \/ ~makeMove(m[1], m[2], rnd)]_vars

\* a column of three rows has been filled from the bottom by alternating
\* players, and the next move was refused on the game still in progress
C12_Witness ==
    /\ GravityStaysDown
    /\ height = 3
    /\ \E col \in Cols : ColumnCount(board, col) = height
    /\ lastOp = "makeMove" /\ ~ret /\ ~gameOver

\* ------------------------------------------------------------------ C13
\* the cell k steps from cell c along direction d
Along(c, d, k) == <<c[1] + k * GravityStep(d)[1], c[2] + k * GravityStep(d)[2]>>

\* t is the furthest empty cell reachable from the empty cell c along d
FurthestEmpty(b, d, c, t) ==
    \E k \in 0 .. (height + width) :
        /\ t = Along(c, d, k)
        /\ \A j \in 0 .. k : InBounds(Along(c, d, j)[1], Along(c, d, j)[2])
        /\ \A j \in 0 .. k : b[Along(c, d, j)] = NULL
        /\ InBounds(Along(c, d, k + 1)[1], Along(c, d, k + 1)[2]) =>
               b[Along(c, d, k + 1)] # NULL

\* C13: for every empty in-bounds cell getGravityTarget returns an in-bounds
\* empty cell on the ray from it in the current gravity direction such that
\* every cell between them is empty and the next cell beyond the result is out
\* of bounds or occupied; with gravity disabled it returns the cell itself and
\* applyGravity leaves the board unchanged.
C13_TargetIsFurthestEmptyCell ==
    /\ [](lastOp = "getGravityTarget" /\ board[result.from] = NULL =>
             IF gravity
             THEN FurthestEmpty(board, gravityDirection, result.from, result.target)
             ELSE result.target = result.from)
    /\ [][(lastOp' = "applyGravity" /\ ~gravity) => board' = board]_vars

\* a piece dropped at the right end of a row comes to rest against a piece at
\* the left end
C13_Witness ==
    /\ lastOp = "getGravityTarget"
    /\ gravity /\ gravityDirection = "left" /\ width = 3
    /\ result.from = <<0, 2>> /\ result.target = <<0, 1>>
    /\ board[<<0, 0>>] # NULL

\* ------------------------------------------------------------------ C14
SeqToSet(seq) == {seq[i] : i \in 1 .. Len(seq)}

\* C14: in every reachable state with gameOver false, the set of cells returned
\* by getValidMoves equals the set of cells for which isValidMove returns true
\* (for which makeMove would succeed), with gravity in any of the four
\* directions and without gravity.
C14_ValidMovesAreTheLegalCells ==
    (lastOp = "getValidMoves" /\ ~gameOver) =>
        SeqToSet(result.moves) = {c \in MoveInputs : isValidMove(c[1], c[2])}

\* the valid moves of a game in progress whose gravity has turned to the right
C14_Witness ==
    /\ lastOp = "getValidMoves"
    /\ ~gameOver /\ gravity /\ gravityDirection = "right"
    /\ \E c \in Cells : board[c] # NULL
    /\ Len(result.moves) = 2
    /\ Cardinality({c \in Cells : board[c] = NULL}) > 2

\* ------------------------------------------------------------------ C15
CurrentPlayerIsAI == players[currentPlayerIndex].type = "ai"

\* C15: in every reachable non-terminal state in which the current player is
\* an AI with any of the six registered strategies, getAIMove returns a cell
\* for which makeMove succeeds; it never returns undefined, an occupied cell
\* or a cell that is not a gravity target.
C15_AIMoveIsLegal ==
    (lastOp = "getAIMove" /\ ~gameOver /\ CurrentPlayerIsAI) =>
        /\ result.move \in Cells
        /\ board[result.move] = NULL
        /\ gravity =>
               getGravityTarget(board, gravityDirection, result.move[1], result.move[2])
                   = result.move
        /\ isValidMove(result.move[1], result.move[2])

\* an AI that had no winning move has answered, under gravity pulling upwards
C15_Witness ==
    /\ lastOp = "getAIMove"
    /\ ~gameOver /\ CurrentPlayerIsAI
    /\ gravity /\ gravityDirection = "up"
    /\ okMoves >= 2
    /\ result.move \in Cells
    /\ isValidMove(result.move[1], result.move[2])
    /\ ~checkWin(Placed(result.move)).found

\* ------------------------------------------------------------------ C16
\* C16: getAIMove returns null, without throwing and without changing any game
\* state, whenever the current player's type is not 'ai'.
C16_NoAIMoveForAHuman ==
    [][(lastOp' = "getAIMove" /\ ~CurrentPlayerIsAI) =>
           (result'.move = NullMove /\ UNCHANGED <<configVars, stateVars>>)]_vars

\* getAIMove was called on the human player's turn in the middle of a game
C16_Witness ==
    /\ lastOp = "getAIMove"
    /\ ~CurrentPlayerIsAI /\ ~gameOver
    /\ result.move = NullMove
    /\ okMoves >= 2

\* ------------------------------------------------------------------ C17
\* C17: a call of getAIMove, for any strategy and with all the
\* checkWinningMove probes it performs, leaves the board and every other field
\* of the game state as they were before the call.
C17_AIMoveChangesNothing ==
    [][lastOp' = "getAIMove" => UNCHANGED <<configVars, stateVars>>]_vars

\* a probing strategy has found a winning move on a board with pieces on it
C17_Witness ==
    /\ lastOp = "getAIMove"
    /\ CurrentPlayerIsAI /\ ~gameOver
    /\ players[currentPlayerIndex].aiStrategy \in {"smart", "offensive-smart", "defensive-smart"}
    /\ result.move \in Cells
    /\ board[result.move] = NULL
    /\ checkWin(Placed(result.move)).found

\* ------------------------------------------------------------------ C18
\* placing the mover's piece on cell c makes a run of winLength through c
CompletesARun(c) ==
    \E o \in Cells, dd \in AxisSet :
        /\ \E i \in 1 .. winLength : LineFrom(o, dd)[i] = c
        /\ IsRun(Placed(c), LineFrom(o, dd))

WinningMoves == {c \in Cells : isValidMove(c[1], c[2]) /\ CompletesARun(c)}

CurrentPlayerIsOffensiveAI ==
    CurrentPlayerIsAI /\ players[currentPlayerIndex].aiStrategy = "offensive"

\* C18: whenever at least one legal move would complete a run of winLength
\* for the mover, OffensiveAI.getMove returns a move that completes such a
\* run; when exactly one such cell exists it returns that cell.
C18_OffensiveAITakesTheWin ==
    (lastOp = "getAIMove" /\ ~gameOver /\ CurrentPlayerIsOffensiveAI
         /\ WinningMoves # {}) =>
        result.move \in WinningMoves

\* ------------------------------------------------------------------ C20
PlayerNames ==
    <<"Player 0", "Player 1", "Player 2", "Player 3", "Player 4", "Player 5",
      "Player 6", "Player 7", "Player 8", "Player 9", "Player A", "Player B",
      "Player C", "Player D", "Player E", "Player F">>

TeamNames == <<"Team 1", "Team 2", "Team 3", "Team 4", "Team 5", "Team 6">>

\* C20: on a win, the reported winner is the label 'Team <team+1>' when the
\* player occupying the first (origin) cell of the winning run has a non-null
\* team, and that player's own name ('Player <index in upper-case hex>')
\* otherwise; also when teamCollaboration is false and a teamed player wins
\* with only their own pieces.
C20_WinnerLabel ==
    (lastOp = "checkWin" /\ result.found) =>
        /\ Len(result.cells) = winLength
        /\ board[result.cells[1]] # NULL
        /\ result.winner =
               IF players[board[result.cells[1]]].team # NULL
               THEN TeamNames[players[board[result.cells[1]]].team + 1]
               ELSE PlayerNames[board[result.cells[1]] + 1]

\* without team collaboration, a player of team 2 has won with own pieces
C20_Witness ==
    /\ lastOp = "checkWin"
    /\ ~teamCollaboration
    /\ result.found
    /\ result.winner = "Team 2"
    /\ \A i \in 1 .. Len(result.cells) : board[result.cells[i]] = board[result.cells[1]]

\* ------------------------------------------------------------------ C19
\* a click has just been applied to the game
ClickApplied == uiOp = "handleCellClick" /\ lastOp = "makeMove" /\ ret

\* C19: in the UI a human cell click is never applied to the game while an AI
\* decision is pending, that is while a processAITurn timer has been scheduled
\* and has not yet fired, across any interleaving of clicks, Start Game, Reset
\* and timer firings.
C19_NoClickWhileAIPending ==
    [][ClickApplied' => timers = 0]_vars

\* ------------------------------------------------------------------ C21
\* the lines of the grid along direction d, each listed from the cell
\* furthest along d back to the nearest
LinesAlong(d) ==
    CASE d = "down" -> {[i \in 1 .. height |-> <<height - i, c>>] : c \in Cols}
      [] d = "up" -> {[i \in 1 .. height |-> <<i - 1, c>>] : c \in Cols}
      [] d = "right" -> {[i \in 1 .. width |-> <<r, width - i>>] : r \in Rows}
      [] d = "left" -> {[i \in 1 .. width |-> <<r, i - 1>>] : r \in Rows}

IsPiece(x) == x # NULL

\* the pieces of board b on a line, in the order of the line
PiecesOn(b, line) == SelectSeq([i \in 1 .. Len(line) |-> b[line[i]]], IsPiece)

\* board "to" is board "from" with every piece slid along d as far as it goes:
\* each line holds the same pieces in the same order, packed at its far end
Resettled(from, to, d) ==
    \A line \in LinesAlong(d) :
        /\ PiecesOn(to, line) = PiecesOn(from, line)
        /\ \A i \in 1 .. (Len(line) - 1) : to[line[i]] = NULL => to[line[i + 1]] = NULL

\* this step is a successful makeMove that does not end the game and whose
\* incremented turnCount is a multiple of gravityRotation.turns
RotatingMove ==
    /\ lastOp' = "makeMove" /\ ret' /\ ~gameOver'
    /\ RotationActive
    /\ turnCount' = turnCount + 1
    /\ turnCount' % gravityRotation.turns = 0

\* the piece this step placed was followed by a resettlement of all pieces in
\* the new direction
ResettledAfterPlacing ==
    \E m \in Cells :
        /\ board[m] = NULL
        /\ Resettled(Placed(m), board', gravityDirection')

CounterclockwiseNext(d) ==
    CASE d = "down" -> "left"
      [] d = "left" -> "up"
      [] d = "up" -> "right"
      [] d = "right" -> "down"

CounterclockwiseOrder ==
    gravityRotation.mode = "counterclockwise" =>
        gravityDirection' = CounterclockwiseNext(gravityDirection)

C22_CallOutcome ==
    /\ board' = GravityPass(board, gravityDirection,
                            SortPositions(OccupiedFrom(board, 0), gravityDirection),
                            1, FALSE).board
    /\ Resettled(board, board', gravityDirection)
    /\ \A p \in PlayerIds : PieceCount(board', p) = PieceCount(board, p)

\* C22: applyGravity always terminates, and one pass over the occupied cells
\* in furthest-along-direction-first order already settles every piece: for
\* every board and direction the outer while loop runs at most two iterations
\* (the second moving nothing), and no piece is ever moved onto an occupied
\* cell.
C22_OnePassSettles ==
    /\ [](\A i \in 1 .. Len(passesLog) : passesLog[i] <= 2)
    /\ [][(lastOp' = "applyGravity" /\ gravity) => C22_CallOutcome]_vars

\* one call on a 3 x 3 board slid two pieces of a row to the left in its first
\* pass and found nothing to move in its second
C22_Witness ==
    /\ passesLog = <<2>>
    /\ gravityDirection = "left"
    /\ width = 3
    /\ \E r \in Rows : board[<<r, 0>>] # NULL /\ board[<<r, 1>>] # NULL /\ board[<<r, 2>>] = NULL

\* ------------------------------------------------------------------ C23
\* the pieces on the board are those the successful moves placed
C23_PiecesAreTheMovesMade ==
    /\ DOMAIN board = Cells
    /\ Cardinality({c \in Cells : board[c] # NULL}) = okMoves
    /\ \A p \in PlayerIds : PieceCount(board, p) = movesBy[p]
    /\ \A c \in Cells : board[c] \in PlayerIds \cup {NULL}

\* C23: in every reachable state the number of occupied cells equals the
\* number of successful makeMove calls since the last reset, and for each
\* player p the number of cells holding p equals the number of successful
\* moves made while p was the current player; gravity resettlement and AI
\* probes never create, delete, overwrite or relabel a piece, and the board
\* dimensions never change.
C23_PiecesMatchSuccessfulMoves ==
    /\ []C23_PiecesAreTheMovesMade
    /\ [][UNCHANGED <<width, height>>]_vars
    /\ [][lastOp' # "makeMove" /\ lastOp' # "reset" =>
            \A p \in PlayerIds : PieceCount(board', p) = PieceCount(board, p)]_vars

\* an AI has been asked for its move after rotations have resettled the
\* pieces of both players
C23_Witness ==
    /\ lastOp = "getAIMove"
    /\ gravity /\ gravityDirection = "up"
    /\ okMoves >= 2
    /\ \A p \in PlayerIds : movesBy[p] >= 1
    /\ \E c \in Cols : board[<<0, c>>] # NULL /\ board[<<height - 1, c>>] = NULL

\* ------------------------------------------------------------------ C24
\* C24: with gravity enabled, in every reachable state (after any sequence of
\* moves, rotations and resets) every occupied cell is at rest for the current
\* gravityDirection: the next cell along that direction is out of bounds or
\* occupied, so no empty cell lies beyond a piece in the gravity direction.
C24_EveryPieceIsAtRest ==
    gravity => \A c \in Cells : board[c] # NULL => RestsAt(c[1], c[2])

\* pieces lie against the left edge after a rotation, one of them with an
\* empty cell below it
C24_Witness ==
    /\ gravity /\ gravityDirection = "left" /\ okMoves >= 3
    /\ \E r \in Rows : r + 1 < height /\ board[<<r, 0>>] # NULL /\ board[<<r + 1, 0>>] = NULL

\* ------------------------------------------------------------------ C25
\* C25: in every reachable state with gameOver = false the board contains no
\* winning run, that is checkWin() returns null; in particular this holds
\* immediately after a gravity rotation has resettled the pieces.
C25_NoRunWhileInProgress ==
    ~gameOver => ~HasRun(board) /\ ~checkWin(board).found

\* ------------------------------------------------------------------ C26
\* this step is a makeMove that ends the game with a winner
WinningStep == lastOp' = "makeMove" /\ ret' /\ ~gameOver /\ gameOver' /\ winner' # NoWinner

\* the run of the win goes through the cell the mover has just filled, and
\* the winner is the label of the mover
WonByTheMover ==
    \E m \in Cells :
        /\ board[m] = NULL
        /\ board' = Placed(m)
        /\ \E i \in 1 .. Len(winningCells') : winningCells'[i] = m
        /\ winner' = RunLabel(currentPlayerIndex)

\* C26: whenever makeMove ends the game with a winner, the winning run
\* contains the cell just placed and the winner is the player who made that
\* move (or that player's team): a game is never declared won by a player or
\* team other than the mover's.
C26_WinnerIsTheMover ==
    [][WinningStep => WonByTheMover]_vars

\* ------------------------------------------------------------------ C27
LegalCells == {c \in Cells : isValidMove(c[1], c[2])}

\* C27: in every reachable state with gameOver = false at least one legal move
\* exists (getValidMoves is non-empty and some makeMove succeeds), with or
\* without gravity and in every gravity direction; a state with empty cells
\* but zero gravity-legal placements is unreachable.
C27_SomeMoveIsLegal ==
    /\ ~gameOver => LegalCells # {} /\ getValidMoves(board, gravityDirection) # <<>>
    /\ (\E c \in Cells : board[c] = NULL) =>
           \E c \in Cells : board[c] = NULL /\ (gravity => RestsAt(c[1], c[2]))

\* a game with gravity pulling upwards has one empty cell left, which is the
\* one legal move
C27_Witness ==
    /\ ~gameOver /\ gravity /\ gravityDirection = "up"
    /\ Cardinality({c \in Cells : board[c] = NULL}) = 1
    /\ Cardinality(LegalCells) = 1

\* ------------------------------------------------------------------ C28
\* C28: every game terminates: at most width x height makeMove calls can
\* succeed between two resets, and a game in which every pending turn is
\* eventually played (all players AI or not, each scheduled AI timer
\* eventually fires) eventually reaches gameOver = true.
C28_EveryGameTerminates ==
    /\ [](okMoves <= width * height)
    /\ hasGame ~> gameOver

\* a game between two AIs has been played by the timers until the board was
\* full
C28_Witness ==
    /\ hasGame /\ gameOver /\ uiOp = "timer" /\ timers = 0
    /\ \A i \in PlayerIds : players[i].type = "ai"
    /\ okMoves = width * height

\* ------------------------------------------------------------------ C29
\* winningCells is a run on the board: winLength cells on the grid, in a row
\* along one of the four scan directions, each holding a piece of the player
\* on the first of them or, with teamCollaboration, of a teammate of that
\* player
WinningCellsAreARun ==
    /\ Len(winningCells) = winLength
    /\ \E dd \in AxisSet : winningCells = LineFrom(winningCells[1], dd)
    /\ \A i \in 1 .. winLength : InBounds(winningCells[i][1], winningCells[i][2])
    /\ \A i \in 1 .. winLength :
           /\ board[winningCells[i]] # NULL
           /\ \/ board[winningCells[i]] = board[winningCells[1]]
              \/ /\ teamCollaboration
                 /\ players[board[winningCells[1]]].team # NULL
                 /\ players[board[winningCells[i]]].team = players[board[winningCells[1]]].team

\* C29: in every reachable state, if gameOver is true and winner is non-null
\* then winningCells holds exactly winLength in-bounds cells, consecutive
\* along one of the four scan directions, each occupied by the origin cell's
\* player or (with teamCollaboration) a player on that player's team; if
\* gameOver is false, or the game ended in a draw, winningCells is empty and
\* winner is null.
C29_WinningCellsMatchTheOutcome ==
    IF gameOver /\ winner # NoWinner THEN WinningCellsAreARun
    ELSE winningCells = <<>> /\ winner = NoWinner

\* a game was won by a run that holds pieces of two teammates
C29_Witness ==
    /\ gameOver /\ winner # NoWinner /\ teamCollaboration
    /\ Len(winningCells) = winLength
    /\ \E i \in 1 .. Len(winningCells) : board[winningCells[i]] # board[winningCells[1]]

\* ------------------------------------------------------------------ C30
\* a piece of player p on the empty cell c would complete a run through c
WinsAt(c, p) ==
    \E o \in Cells, dd \in AxisSet :
        /\ \E i \in 1 .. winLength : LineFrom(o, dd)[i] = c
        /\ IsRun([board EXCEPT ![c] = p], LineFrom(o, dd))

\* the legal moves that are an immediate win for player p
ImmediateWins(p) == {c \in LegalCells : WinsAt(c, p)}

\* the opponents of the mover: every other player who is teamless, or whose
\* team differs, or any other player when the mover is teamless
Opponents ==
    {q \in PlayerIds \ {currentPlayerIndex} :
        \/ players[currentPlayerIndex].team = NULL
        \/ players[q].team = NULL
        \/ players[q].team # players[currentPlayerIndex].team}

\* the legal cells on which some opponent would win at once
OpponentWins == {c \in LegalCells : \E q \in Opponents : WinsAt(c, q)}

\* the first cell of a non-empty set of cells in row-major order
FirstRowMajor(S) ==
    CHOOSE c \in S : \A e \in S : c[1] * width + c[2] <= e[1] * width + e[2]

\* the moves Defensive can return in the current state
DefensiveMoves ==
    IF DefensiveAI_getMove(board, gravityDirection, currentPlayerIndex).move = RandomPick
    THEN LegalCells
    ELSE {DefensiveAI_getMove(board, gravityDirection, currentPlayerIndex).move}

AskedStrategy == players[currentPlayerIndex].aiStrategy

\* getAIMove has just answered for an AI whose turn it is in a game in progress
AIHasAnswered == lastOp = "getAIMove" /\ CurrentPlayerIsAI /\ ~gameOver

\* C30: Smart, Offensive-Smart and Defensive-Smart: if some legal move is an
\* immediate win for the mover, the strategy returns the first such move in
\* row-major enumeration order. Smart and Offensive-Smart additionally: if no
\* legal move wins for the mover but some legal cell would be an immediate win
\* for an opponent (a non-self player who is teamless, or whose team differs,
\* or when the mover is teamless), the strategy returns such a cell;
\* Defensive-Smart performs no such block check and delegates to Defensive.
C30_SmartStrategiesWinThenBlock ==
    AIHasAnswered =>
        /\ (AskedStrategy \in {"smart", "offensive-smart", "defensive-smart"}
            /\ ImmediateWins(currentPlayerIndex) # {}) =>
               result.move = FirstRowMajor(ImmediateWins(currentPlayerIndex))
        /\ (AskedStrategy \in {"smart", "offensive-smart"}
            /\ ImmediateWins(currentPlayerIndex) = {}
            /\ OpponentWins # {}) =>
               result.move \in OpponentWins
        /\ (AskedStrategy = "defensive-smart"
            /\ ImmediateWins(currentPlayerIndex) = {}) =>
               result.move \in DefensiveMoves

\* ------------------------------------------------------------------ C31
\* C31: OffensiveAI.evaluateMove returns 1000 for a candidate cell if and only
\* if placing the mover's piece there makes the win detector report a win, for
\* every configuration including games with teams and teamCollaboration =
\* false.
C31_WinScoreIffWin ==
    (lastOp = "getAIMove" /\ CurrentPlayerIsOffensiveAI /\ ~gameOver) =>
        \A c \in LegalCells :
            (evaluateMove(board, c, currentPlayerIndex) = 1000) <=> checkWin(Placed(c)).found

\* ------------------------------------------------------------------ C32
\* the cells getValidMoves lists in the current state
ValidMoveCells ==
    {getValidMoves(board, gravityDirection)[k] :
        k \in 1 .. Len(getValidMoves(board, gravityDirection))}

\* the largest getLongestChainNear over the pairs of a listed move and an
\* opponent of the mover (0 when there is no pair)
ChainNear(c, q) == getLongestChainNear(board, c[1], c[2], q)
MaxChainNear ==
    IF ValidMoveCells = {} \/ Opponents = {} THEN 0
    ELSE CHOOSE n \in 0 .. 2 * MaxWinLength :
             /\ \E c \in ValidMoveCells, q \in Opponents : ChainNear(c, q) = n
             /\ \A c \in ValidMoveCells, q \in Opponents : ChainNear(c, q) <= n

\* the listed moves on which some opponent attains the maximum
MostBlocking ==
    {c \in ValidMoveCells : \E q \in Opponents : ChainNear(c, q) = MaxChainNear}

DefensiveHasAnswered ==
    /\ lastOp = "getAIMove" /\ CurrentPlayerIsAI
    /\ AskedStrategy = "defensive"
    /\ ValidMoveCells # {}

\* C32: DefensiveAI.getMove returns the first legal move, in row-major move
\* order and then ascending opponent index, that attains the maximum over all
\* (legal move, opponent) pairs of getLongestChainNear, provided that maximum
\* is greater than 0; when it is 0 for every pair, it returns some legal move;
\* self and same-team players are never treated as opponents.
C32_DefensiveBlocksTheLongestChain ==
    DefensiveHasAnswered =>
        IF MaxChainNear > 0
        THEN result.move = FirstRowMajor(MostBlocking)
        ELSE result.move \in ValidMoveCells

\* the Defensive AI, one of whose rivals is a teammate and no opponent, has
\* chosen the first of several moves that attain the maximum
C32_Witness ==
    /\ DefensiveHasAnswered
    /\ MaxChainNear > 0
    /\ Cardinality(MostBlocking) >= 2
    /\ Opponents # PlayerIds \ {currentPlayerIndex}
    /\ result.move = FirstRowMajor(MostBlocking)

\* the Defensive AI has passed over the first listed move, which does not
\* attain the maximum, for the first of several that do
C32_WitnessPassingOver ==
    /\ DefensiveHasAnswered
    /\ MaxChainNear > 0
    /\ Cardinality(MostBlocking) >= 2
    /\ getValidMoves(board, gravityDirection)[1] \notin MostBlocking
    /\ result.move = FirstRowMajor(MostBlocking)

\* the Defensive AI has drawn a move at random, no opponent having a piece
\* next to a listed move
C32_WitnessRandom ==
    /\ DefensiveHasAnswered
    /\ MaxChainNear = 0
    /\ \E c \in Cells : board[c] # NULL

\* ------------------------------------------------------------------ C33
\* the cells player p's strategy can return in the current state
StrategyMoves(p) ==
    IF getMove(players[p].aiStrategy, board, gravityDirection, p).move = RandomPick
    THEN ValidMoveCells
    ELSE {getMove(players[p].aiStrategy, board, gravityDirection, p).move}

\* this step puts a piece of player p on the board
PiecePlacedBy(p) == PieceCount(board', p) > PieceCount(board, p)

NewPiece == CHOOSE c \in Cells : board[c] = NULL /\ board'[c] # NULL

TotalPieces == Cardinality({c \in Cells : board[c] # NULL})

\* the pieces on the board are those of turns taken in order from player 0
TurnsTakenInOrder ==
    /\ \A p \in PlayerIds :
           PieceCount(board, p) = (TotalPieces \div Cardinality(PlayerIds))
                                  + (IF p < TotalPieces % Cardinality(PlayerIds) THEN 1 ELSE 0)
    /\ ~gameOver => currentPlayerIndex = TotalPieces % Cardinality(PlayerIds)

PlacedInTurn(p) ==
    /\ p = currentPlayerIndex
    /\ board' = [board EXCEPT ![NewPiece] = p]
    /\ uiOp' \in {"timer", "handleCellClick"}
    /\ uiOp' = "timer" => players[p].type = "ai" /\ NewPiece \in StrategyMoves(p)
    /\ uiOp' = "handleCellClick" => players[p].type = "human"
    /\ ~gameOver' => currentPlayerIndex' = (p + 1) % Cardinality(PlayerIds)

\* C33: in the Connect Game UI, under any interleaving of cell clicks, Start
\* Game, Reset and AI timer firings, every piece placed belongs to the player
\* whose turn it was: a timer callback places a piece only when the current
\* player is an AI (using that player's own strategy), and a click places a
\* piece only when the current player is human; no player ever moves twice in
\* a row and no turn is skipped.
C33_EveryPieceIsPlacedInTurn ==
    /\ [](hasGame => TurnsTakenInOrder)
    /\ [][\A p \in PlayerIds : PiecePlacedBy(p) => PlacedInTurn(p)]_vars

\* two AIs with different strategies play while two timers are pending, and
\* the callback that has just fired has placed the second player's piece
C33_Witness ==
    /\ uiOp = "timer" /\ lastOp = "makeMove" /\ ret
    /\ timers = MaxTimers
    /\ \A p \in PlayerIds : players[p].type = "ai"
    /\ players[0].aiStrategy # players[1].aiStrategy
    /\ PieceCount(board, 0) = PieceCount(board, 1)
    /\ TotalPieces > 0

\* a callback left over from an earlier Start Game or Reset has fired on a
\* human's turn and has placed nothing
C33_WitnessStaleTimer ==
    /\ uiOp = "timer" /\ ~ret
    /\ hasGame /\ ~gameOver
    /\ players[currentPlayerIndex].type = "human"
    /\ TotalPieces > 0

\* ------------------------------------------------------------------ C34
\* C34: in the Connect Game UI, the 'AI thinking' indicator is eventually
\* hidden after every AI timer fires: in every state where no AI timer is
\* pending (it is a human's turn or the game is over) the indicator is not
\* displayed, including when Reset or Start Game is pressed while an AI timer
\* is pending.
C34_IndicatorHiddenWhenNoTimerPending ==
    timers = 0 => ~aiThinking

\* ============================================================ Shut the Box
\* bounds of the box game
MaxBoxes == 4
MaxDice == 2
MaxFaces == 3
MaxGames == 2
MaxRolls == 3
MaxRollTimers == 2

\* a.reduce((a, b) => a + b, 0) on a list of numbers
RECURSIVE SumSeq(_)
SumSeq(a) == IF a = <<>> THEN 0 ELSE Head(a) + SumSeq(Tail(a))

\* Array.from(this.openBoxes): a Set lists its elements in the order of
\* insertion, which reset() makes ascending and delete() keeps
RECURSIVE ArrayFrom(_)
ArrayFrom(open) ==
    IF open = {} THEN <<>>
    ELSE <<CHOOSE b \in open : \A c \in open : b <= c>>
         \o ArrayFrom(open \ {CHOOSE b \in open : \A c \in open : b <= c})

\* subset.sort((a, b) => a - b): insertion of each element in its place
RECURSIVE InsertSorted(_, _)
InsertSorted(x, a) ==
    IF a = <<>> THEN <<x>>
    ELSE IF x < Head(a) THEN <<x>> \o a
    ELSE <<Head(a)>> \o InsertSorted(x, Tail(a))

RECURSIVE SortAscending(_)
SortAscending(a) == IF a = <<>> THEN <<>> ELSE InsertSorted(Head(a), SortAscending(Tail(a)))

Pow2(n) == 2 ^ n

\* the inner loop of findValidCombinations: the elements at the positions j
\* (from 0) whose bit is set in i
RECURSIVE SubsetOfMask(_, _, _)
SubsetOfMask(arr, i, j) ==
    IF j >= Len(arr) THEN <<>>
    ELSE (IF (i \div Pow2(j)) % 2 = 1 THEN <<arr[j + 1]>> ELSE <<>>)
         \o SubsetOfMask(arr, i, j + 1)

\* the outer loop over the masks i = 1 .. 2^length - 1
RECURSIVE CombinationsFrom(_, _, _)
CombinationsFrom(arr, target, i) ==
    IF i >= Pow2(Len(arr)) THEN <<>>
    ELSE (IF SumSeq(SubsetOfMask(arr, i, 0)) = target
          THEN <<SortAscending(SubsetOfMask(arr, i, 0))>>
          ELSE <<>>)
         \o CombinationsFrom(arr, target, i + 1)

\* findValidCombinations reporting the single boxes only
findValidCombinationsOfOneBox(open, target) ==
    IF target \in open THEN <<<<target>>>> ELSE <<>>

findValidCombinations(open, target) == CombinationsFrom(ArrayFrom(open), target, 1)

\* getRemainingSum()
getRemainingSum(open) == SumSeq(ArrayFrom(open))

\* endGame() that does not record the game
endGameUnrecorded(open) ==
    /\ boxGameOver' = TRUE
    /\ currentScore' = getRemainingSum(open)
    /\ UNCHANGED statVars

\* endGame(), the boxes still open being open: gameOver, the score and the
\* statistics; the average pushed to history.averageScore is the quotient of
\* the sum and the length of scoreHistory, kept as that pair
endGame(open) ==
    /\ boxGameOver' = TRUE
    /\ currentScore' = getRemainingSum(open)
    /\ totalGames' = totalGames + 1
    /\ scoreHistory' = Append(scoreHistory, getRemainingSum(open))
    /\ totalWins' = IF getRemainingSum(open) = 0 THEN totalWins + 1 ELSE totalWins
    /\ historyGameNumber' = Append(historyGameNumber, totalGames + 1)
    /\ historyAverageScore' =
           Append(historyAverageScore,
                  <<SumSeq(scoreHistory) + getRemainingSum(open), Len(scoreHistory) + 1>>)

notEnded == UNCHANGED <<boxGameOver, currentScore, statVars>>

\* ShutTheBoxGame.reset()
ShutTheBoxGame_reset(n) ==
    /\ openBoxes' = 1 .. n
    /\ currentRoll' = NULL
    /\ rollsThisGame' = 0
    /\ boxGameOver' = FALSE
    /\ currentScore' = 0

\* ShutTheBoxGame.rollDice(), the dice showing total
ShutTheBoxGame_rollDice(total) ==
    IF boxGameOver
    THEN /\ boxRet' = NULL
         /\ UNCHANGED <<gameVars, statVars, movesThisRoll>>
    ELSE /\ currentRoll' = total
         /\ rollsThisGame' = rollsThisGame + 1
         /\ IF Len(findValidCombinations(openBoxes, total)) = 0
            THEN endGame(openBoxes)
            ELSE notEnded
         /\ boxRet' = total
         /\ movesThisRoll' = 0
         /\ UNCHANGED openBoxes

\* the boxes of a list, as the set that delete() and has() work on
Range(a) == {a[k] : k \in DOMAIN a}

\* ShutTheBoxGame.makeMove(boxes)
ShutTheBoxGame_makeMove(boxes) ==
    IF boxGameOver THEN /\ boxRet' = FALSE
                        /\ UNCHANGED <<gameVars, statVars, movesThisRoll>>
    ELSE IF SumSeq(boxes) # currentRoll
         THEN /\ boxRet' = FALSE
              /\ UNCHANGED <<gameVars, statVars, movesThisRoll>>
    ELSE IF \E k \in DOMAIN boxes : boxes[k] \notin openBoxes
         THEN /\ boxRet' = FALSE
              /\ UNCHANGED <<gameVars, statVars, movesThisRoll>>
    ELSE /\ openBoxes' = openBoxes \ Range(boxes)
         /\ IF openBoxes \ Range(boxes) = {}
            THEN endGame({})
            ELSE notEnded
         /\ boxRet' = TRUE
         /\ movesThisRoll' = movesThisRoll + 1
         /\ UNCHANGED <<currentRoll, rollsThisGame>>

\* applySettings(numBoxes, numDice, dieFaces, strategy)
ShutTheBoxGame_applySettings(n, d, f, st) ==
    /\ numBoxes' = n /\ numDice' = d /\ dieFaces' = f /\ boxStrategy' = st
    /\ ShutTheBoxGame_reset(n)
    /\ UNCHANGED statVars

\* resetStatistics()
ShutTheBoxGame_resetStatistics ==
    /\ totalGames' = 0
    /\ totalWins' = 0
    /\ scoreHistory' = <<>>
    /\ historyGameNumber' = <<>>
    /\ historyAverageScore' = <<>>

\* ------------------------------------------------- the box game on its own
\* no Connect Game page is loaded: the variables of the Connect Game keep
\* the values of a constructed 2 x 2 game
NoConnectGame ==
    /\ height = 2 /\ width = 2 /\ winLength = 2 /\ gravity = FALSE
    /\ players = HumanPlayers([i \in 0 .. 1 |-> NULL])
    /\ gravityRotation = NoRotation
    /\ teamCollaboration = TRUE
    /\ Constructed
    /\ NoUI

connectVars == <<configVars, stateVars, obsVars, uiVars>>

STRATEGIES ==
    {"random", "minimize-max", "minimize-sum", "balanced", "greedy-high", "greedy-low"}

\* the settings explored: two to MaxBoxes boxes, one die or MaxDice dice of
\* MaxFaces faces
BoxSettings == {<<n, d, MaxFaces>> : n \in 2 .. MaxBoxes, d \in 1 .. MaxDice}

\* the totals numDice dice of dieFaces faces can show
DiceTotals == numDice .. (numDice * dieFaces)

\* the lists of boxes passed to makeMove: every set of boxes in ascending
\* order (the empty list among them), and lists out of order or with a box
\* repeated
BoxLists ==
    {ArrayFrom(S) : S \in SUBSET (1 .. MaxBoxes)}
    \cup {<<2, 1>>, <<3, 1>>, <<1, 1>>, <<2, 2>>, <<1, 1, 1>>}

\* new ShutTheBoxGame(numBoxes, numDice, dieFaces, strategy)
BoxConstructed(strategies) ==
    /\ \E c \in BoxSettings : numBoxes = c[1] /\ numDice = c[2] /\ dieFaces = c[3]
    /\ boxStrategy \in strategies
    /\ openBoxes = 1 .. numBoxes
    /\ currentRoll = NULL /\ rollsThisGame = 0 /\ boxGameOver = FALSE /\ currentScore = 0
    /\ totalGames = 0 /\ totalWins = 0 /\ scoreHistory = <<>>
    /\ historyGameNumber = <<>> /\ historyAverageScore = <<>>
    /\ boxOp = "constructor" /\ boxRet = NULL /\ movesThisRoll = 0 /\ selected = <<>>

NoPage == manualMode = TRUE /\ rollTimers = 0 /\ comboButtons = <<>> /\ playing = "idle"

InitShutTheBox ==
    /\ NoConnectGame
    /\ BoxConstructed({"minimize-max"})
    /\ NoPage

BoxReset ==
    /\ ShutTheBoxGame_reset(numBoxes)
    /\ boxOp' = "reset" /\ boxRet' = NULL /\ movesThisRoll' = 0
    /\ UNCHANGED <<connectVars, settingVars, statVars, pageVars>>
    /\ selected' = <<>>

BoxRollDice ==
    /\ boxGameOver \/ (totalGames < MaxGames /\ rollsThisGame < MaxRolls)
    /\ \E total \in DiceTotals : ShutTheBoxGame_rollDice(total)
    /\ boxOp' = "rollDice"
    /\ UNCHANGED <<connectVars, settingVars, pageVars>>
    /\ selected' = <<>>

BoxMakeMove ==
    /\ boxGameOver \/ totalGames < MaxGames
    /\ \E boxes \in BoxLists : ShutTheBoxGame_makeMove(boxes) /\ selected' = boxes
    /\ boxOp' = "makeMove"
    /\ UNCHANGED <<connectVars, settingVars, pageVars>>

BoxApplySettings ==
    /\ \E c \in BoxSettings, st \in {"minimize-max", "random"} :
           ShutTheBoxGame_applySettings(c[1], c[2], c[3], st)
    /\ boxOp' = "applySettings" /\ boxRet' = NULL /\ movesThisRoll' = 0
    /\ UNCHANGED <<connectVars, pageVars>>
    /\ selected' = <<>>

BoxResetStatistics ==
    /\ ShutTheBoxGame_resetStatistics
    /\ boxOp' = "resetStatistics" /\ boxRet' = NULL
    /\ UNCHANGED <<connectVars, settingVars, gameVars, pageVars, movesThisRoll>>
    /\ selected' = <<>>

NextShutTheBox ==
    \/ BoxReset \/ BoxRollDice \/ BoxMakeMove \/ BoxApplySettings \/ BoxResetStatistics

SpecShutTheBox == InitShutTheBox /\ [][NextShutTheBox]_vars

\* ----------------------------------------------------- the Shut the Box page
\* updateUI(): the combination buttons on display once the handler is done
\* (none while the move selection is hidden)
updateUI(over, roll, manual, open) ==
    IF over THEN <<>>
    ELSE IF roll # NULL /\ manual THEN findValidCombinations(open, roll)
    ELSE <<>>

\* (no handler that calls updateUI() changes manualMode)
UpdateUI == comboButtons' = updateUI(boxGameOver', currentRoll', manualMode, openBoxes')

\* newGame()
newGame ==
    /\ ShutTheBoxGame_reset(numBoxes)
    /\ boxOp' = "reset" /\ boxRet' = NULL /\ movesThisRoll' = 0
    /\ UNCHANGED statVars
    /\ UpdateUI

\* function rollDice(): the Roll Dice button and the auto-roll timer
rollDice(total) ==
    IF boxGameOver
    THEN newGame
    ELSE /\ ShutTheBoxGame_rollDice(total)
         /\ boxOp' = "rollDice"
         /\ UpdateUI

\* the click listener of the button of combination combo
comboClicked(combo) ==
    /\ ShutTheBoxGame_makeMove(combo)
    /\ boxOp' = "makeMove"
    /\ UpdateUI
    /\ rollTimers' = IF ~boxGameOver' /\ manualMode THEN rollTimers + 1 ELSE rollTimers

\* the page as loaded: new ShutTheBoxGame() with the settings explored,
\* manualMode, updateUI()
InitBoxPage ==
    /\ NoConnectGame
    /\ BoxConstructed({"minimize-max"})
    /\ NoPage

RollButton ==
    /\ boxGameOver \/ (totalGames < MaxGames /\ rollsThisGame < MaxRolls)
    /\ \E total \in DiceTotals : rollDice(total)
    /\ UNCHANGED <<connectVars, settingVars, manualMode, rollTimers, playing>>
    /\ selected' = <<>>

NewGameButton ==
    /\ newGame
    /\ UNCHANGED <<connectVars, settingVars, manualMode, rollTimers, playing>>
    /\ selected' = <<>>

ResetStatisticsButton ==
    /\ ShutTheBoxGame_resetStatistics
    /\ ShutTheBoxGame_reset(numBoxes)
    /\ boxOp' = "resetStatistics" /\ boxRet' = NULL /\ movesThisRoll' = 0
    /\ UpdateUI
    /\ UNCHANGED <<connectVars, settingVars, manualMode, rollTimers, playing>>
    /\ selected' = <<>>

ApplySettingsButton ==
    /\ \E c \in BoxSettings : ShutTheBoxGame_applySettings(c[1], c[2], c[3], boxStrategy)
    /\ boxOp' = "applySettings" /\ boxRet' = NULL /\ movesThisRoll' = 0
    /\ UpdateUI
    /\ UNCHANGED <<connectVars, manualMode, rollTimers, playing>>
    /\ selected' = <<>>

ComboButton ==
    /\ rollTimers < MaxRollTimers
    /\ \E k \in DOMAIN comboButtons : comboClicked(comboButtons[k]) /\ selected' = comboButtons[k]
    /\ UNCHANGED <<connectVars, settingVars, manualMode, playing>>

RollTimerFires ==
    /\ rollTimers > 0
    /\ boxGameOver \/ (totalGames < MaxGames /\ rollsThisGame < MaxRolls)
    /\ \E total \in DiceTotals : rollDice(total)
    /\ rollTimers' = rollTimers - 1
    /\ UNCHANGED <<connectVars, settingVars, manualMode, playing>>
    /\ selected' = <<>>

NextBoxPage ==
    \/ RollButton \/ NewGameButton \/ ResetStatisticsButton \/ ApplySettingsButton
    \/ ComboButton \/ RollTimerFires

SpecBoxPage == InitBoxPage /\ [][NextBoxPage]_vars

\* ------------------------------------------------------------- autoplay
\* the boxes left open once combo is shut
Remaining(open, combo) == open \ Range(combo)

\* Math.max(...remaining), 0 for none
MaxBox(S) == IF S = {} THEN 0 ELSE CHOOSE b \in S : \A c \in S : c <= b

\* the test of each reduce callback: current replaces best. The averages
\* sum / length and their distances from currentRoll / 2 are compared as
\* fractions, exactly: the combinations compared all sum to the roll, so two
\* of them have equal averages, or equal distances, only when they have the
\* same length, and then the quotients computed are the same numbers.
Replaces(st, current, best, open, roll) ==
    CASE st = "minimize-max" ->
             MaxBox(Remaining(open, current)) < MaxBox(Remaining(open, best))
      [] st = "minimize-sum" ->
             getRemainingSum(Remaining(open, current)) < getRemainingSum(Remaining(open, best))
      [] st = "balanced" ->
             Abs(2 * SumSeq(current) - roll * Len(current)) * Len(best)
                 < Abs(2 * SumSeq(best) - roll * Len(best)) * Len(current)
      [] st = "greedy-high" ->
             SumSeq(current) * Len(best) > SumSeq(best) * Len(current)
      [] st = "greedy-low" ->
             SumSeq(current) * Len(best) < SumSeq(best) * Len(current)
      [] OTHER -> FALSE

\* combinations.reduce(...): from element k on, best being the value so far
RECURSIVE Reduce(_, _, _, _, _, _)
Reduce(st, combinations, k, best, open, roll) ==
    IF k > Len(combinations) THEN best
    ELSE IF Replaces(st, combinations[k], best, open, roll)
         THEN Reduce(st, combinations, k + 1, combinations[k], open, roll)
         ELSE Reduce(st, combinations, k + 1, best, open, roll)

\* null where a combination is expected
NoCombination == <<NULL>>

\* selectBestMove finding no move
selectBestMoveFindingNone(st, combinations, open, roll, rnd) == NoCombination

\* selectBestMove(combinations), Math.random() drawing index rnd
selectBestMove(st, combinations, open, roll, rnd) ==
    IF Len(combinations) = 0 THEN NoCombination
    ELSE IF Len(combinations) = 1 THEN combinations[1]
    ELSE IF st = "random" THEN combinations[(rnd % Len(combinations)) + 1]
    ELSE IF st \in STRATEGIES THEN Reduce(st, combinations, 2, combinations[1], open, roll)
    ELSE combinations[1]

\* the page with a strategy of the list or a name outside it
InitAutoplay ==
    /\ NoConnectGame
    /\ BoxConstructed(STRATEGIES \cup {"other"})
    /\ NoPage

\* startAutoplay(), stopAutoplay(): the interval runs while manualMode is false
StartAutoplay ==
    /\ playing = "idle" /\ manualMode
    /\ manualMode' = FALSE
    /\ boxOp' = "startAutoplay"
    /\ UNCHANGED <<connectVars, settingVars, gameVars, statVars, rollTimers, comboButtons,
                   playing, boxRet, movesThisRoll, selected>>

StopAutoplay ==
    /\ playing = "idle" /\ ~manualMode
    /\ manualMode' = TRUE
    /\ boxOp' = "stopAutoplay"
    /\ UNCHANGED <<connectVars, settingVars, gameVars, statVars, rollTimers, comboButtons,
                   playing, boxRet, movesThisRoll, selected>>

\* the interval fires: playOneGame() calls game.reset() and enters the loop
PlayOneGameBegins ==
    /\ playing = "idle" /\ ~manualMode
    /\ totalGames < MaxGames
    /\ ShutTheBoxGame_reset(numBoxes)
    /\ boxOp' = "reset" /\ boxRet' = NULL /\ movesThisRoll' = 0 /\ selected' = <<>>
    /\ playing' = "roll"
    /\ UNCHANGED <<connectVars, settingVars, statVars, manualMode, rollTimers, comboButtons>>

\* the loop is left: updateUI(), and playOneGame() returns
LeavesLoop(over) ==
    IF over THEN playing' = "idle" /\ UpdateUI
    ELSE UNCHANGED comboButtons

\* while (!game.gameOver) { game.rollDice(); if (game.gameOver) break; ...
PlayOneGameRolls ==
    /\ playing = "roll"
    /\ \E total \in DiceTotals : ShutTheBoxGame_rollDice(total)
    /\ boxOp' = "rollDice" /\ selected' = <<>>
    /\ LeavesLoop(boxGameOver')
    /\ ~boxGameOver' => playing' = "move"
    /\ UNCHANGED <<connectVars, settingVars, manualMode, rollTimers>>

\* ... findValidCombinations, selectBestMove, makeMove } and the loop test
PlayOneGameMoves ==
    /\ playing = "move"
    /\ \E rnd \in 0 .. (Max(1, Len(findValidCombinations(openBoxes, currentRoll))) - 1) :
        \E bestMove \in {selectBestMove(boxStrategy, findValidCombinations(openBoxes, currentRoll),
                                          openBoxes, currentRoll, rnd)} :
           IF Len(findValidCombinations(openBoxes, currentRoll)) = 0
           THEN /\ endGame(openBoxes)
                /\ boxOp' = "endGame" /\ selected' = <<>>
                /\ UNCHANGED <<openBoxes, currentRoll, rollsThisGame, boxRet, movesThisRoll>>
           ELSE IF bestMove = NoCombination
           THEN /\ boxOp' = "selectBestMove" /\ selected' = <<>>
                /\ UNCHANGED <<gameVars, statVars, boxRet, movesThisRoll>>
           ELSE /\ ShutTheBoxGame_makeMove(bestMove)
                /\ boxOp' = "makeMove" /\ selected' = bestMove
    /\ LeavesLoop(boxGameOver')
    /\ ~boxGameOver' => playing' = "roll"
    /\ UNCHANGED <<connectVars, settingVars, manualMode, rollTimers>>

NextAutoplay ==
    StartAutoplay \/ StopAutoplay \/ PlayOneGameBegins \/ PlayOneGameRolls \/ PlayOneGameMoves

\* The steps of PlayOneGameRolls and PlayOneGameMoves, described by what
\* they do to the position in playOneGame: inside the loop one of the two is
\* always possible (the dice show some total at "roll"; at "move" the body
\* runs on), each moves the position on, and no other step of NextAutoplay
\* changes the position from inside the loop.
LoopRuns ==
    /\ playing # "idle"
    /\ playing' \in {"idle", "roll", "move"} \ {playing}

\* playOneGame() is one synchronous call: once entered, its loop runs on
SpecAutoplay ==
    /\ InitAutoplay /\ [][NextAutoplay]_vars
    /\ WF_playing(LoopRuns)

\* ------------------------------------------------------------------ C35
\* C35: each dice roll is consumed by at most one successful move: after
\* ShutTheBoxGame.makeMove returns true, any further makeMove without an
\* intervening rollDice returns false and closes no box; in manual mode the UI
\* cannot shut two combinations against the same roll, even when a second
\* combination button is clicked before the 200 ms auto-roll timer fires.
C35_OneMovePerRoll ==
    [][(boxOp' = "makeMove" /\ movesThisRoll > 0)
          => (boxRet' = FALSE /\ openBoxes' = openBoxes)]_vars

\* ------------------------------------------------------------------ C36
\* the sum of a set of boxes
RECURSIVE SumOfBoxes(_)
SumOfBoxes(S) ==
    IF S = {} THEN 0
    ELSE (CHOOSE b \in S : TRUE) + SumOfBoxes(S \ {CHOOSE b \in S : TRUE})

\* some non-empty set of open boxes sums to roll
SomeBoxesSumTo(open, roll) ==
    \E S \in SUBSET open : S # {} /\ SumOfBoxes(S) = roll

RECURSIVE SumOfList(_, _)
SumOfList(a, k) == IF k > Len(a) THEN 0 ELSE a[k] + SumOfList(a, k + 1)

BoxGameUnchanged == UNCHANGED <<settingVars, gameVars, statVars>>

\* a call of rollDice on a game in progress ends it exactly when no boxes sum
\* to the roll; on a finished game it returns null and changes nothing
RollDiceStep ==
    boxOp' = "rollDice" =>
        IF boxGameOver THEN boxRet' = NULL /\ BoxGameUnchanged
        ELSE /\ boxRet' = currentRoll'
             /\ boxGameOver' <=> ~SomeBoxesSumTo(openBoxes, currentRoll')

\* a call of makeMove ends the game exactly when it shuts the last open box,
\* and refuses a list on a finished game, a list that does not sum to the
\* roll and a list with a box already shut
MakeMoveStep ==
    boxOp' = "makeMove" =>
        /\ (~boxGameOver /\ boxGameOver') <=> (openBoxes # {} /\ openBoxes' = {})
        /\ (\/ boxGameOver
            \/ SumOfList(selected', 1) # currentRoll
            \/ \E k \in DOMAIN selected' : selected'[k] \notin openBoxes)
           => (boxRet' = FALSE /\ openBoxes' = openBoxes)

\* the game ending in this step counts as a win exactly when no box is left
EndOfGameStep ==
    (~boxGameOver /\ boxGameOver') =>
        /\ totalWins' = totalWins + (IF SumOfBoxes(openBoxes') = 0 THEN 1 ELSE 0)
        /\ scoreHistory' = Append(scoreHistory, SumOfBoxes(openBoxes'))

\* C36: rollDice ends the game exactly when no non-empty subset of the open
\* boxes sums to the roll, and makeMove ends it exactly when the last open box
\* is shut; makeMove returns false and leaves openBoxes unchanged when the
\* game is over, the boxes do not sum to currentRoll, or any listed box is
\* already shut; at gameOver currentScore equals the sum of the still-open
\* boxes and the game counts as a win iff that sum is 0; rollDice on a
\* finished game returns null and changes nothing.
C36_GameEndsAndRefusals ==
    /\ [](boxGameOver => currentScore = SumOfBoxes(openBoxes))
    /\ [][RollDiceStep /\ MakeMoveStep /\ EndOfGameStep]_vars

\* a game lost on a roll that no boxes sum to, then a game won by the move
\* that shuts the last box
C36_Witness ==
    /\ boxOp = "makeMove" /\ boxRet = TRUE
    /\ boxGameOver /\ openBoxes = {} /\ currentScore = 0
    /\ totalGames = 2 /\ totalWins = 1
    /\ scoreHistory[1] > 0

\* a list that sums to the roll is refused for a box already shut
C36_WitnessRefused ==
    /\ boxOp = "makeMove" /\ boxRet = FALSE /\ ~boxGameOver
    /\ SumOfList(selected, 1) = currentRoll
    /\ \E k \in DOMAIN selected : selected[k] \notin openBoxes

\* rollDice has returned null on a finished game
C36_WitnessRollWhenOver ==
    boxOp = "rollDice" /\ boxRet = NULL /\ boxGameOver

\* ------------------------------------------------------------------ C37
ZeroEntries(h) == Cardinality({k \in DOMAIN h : h[k] = 0})

StatisticsConsistent ==
    /\ Len(scoreHistory) = totalGames
    /\ Len(historyGameNumber) = totalGames
    /\ Len(historyAverageScore) = totalGames
    /\ totalWins = ZeroEntries(scoreHistory)
    /\ totalWins <= totalGames

StatisticsEmpty ==
    /\ totalGames = 0 /\ totalWins = 0 /\ scoreHistory = <<>>
    /\ historyGameNumber = <<>> /\ historyAverageScore = <<>>

\* the statistics change only when a game reaches gameOver, by one entry, and
\* in resetStatistics(), which empties them
StatisticsStep ==
    /\ (~boxGameOver /\ boxGameOver') =>
           /\ totalGames' = totalGames + 1
           /\ scoreHistory' = Append(scoreHistory, currentScore')
           /\ historyGameNumber' = Append(historyGameNumber, totalGames + 1)
           /\ Len(historyAverageScore') = Len(historyAverageScore) + 1
    /\ boxOp' = "resetStatistics" => StatisticsEmpty'
    /\ (~(~boxGameOver /\ boxGameOver') /\ boxOp' # "resetStatistics") => UNCHANGED statVars
    /\ boxOp' \in {"reset", "applySettings"} => UNCHANGED statVars

\* C37: Shut the Box statistics: in every reachable state scoreHistory.length
\* = totalGames = history.gameNumber.length = history.averageScore.length and
\* totalWins equals the number of zero entries in scoreHistory (so totalWins
\* <= totalGames); each game that reaches gameOver is recorded exactly once;
\* reset() and applySettings() leave the statistics unchanged, and
\* resetStatistics() sets all of them to zero/empty.
C37_StatisticsConsistent ==
    /\ []StatisticsConsistent
    /\ [][StatisticsStep]_vars

\* after a lost and a won game, applySettings() has left both on record
C37_Witness ==
    /\ boxOp = "applySettings"
    /\ totalGames = 2 /\ totalWins = 1
    /\ scoreHistory[1] > 0 /\ scoreHistory[2] = 0

\* resetStatistics() has emptied the record of a finished game
C37_WitnessEmptied ==
    /\ boxOp = "resetStatistics" /\ boxGameOver /\ StatisticsEmpty

\* ------------------------------------------------------------------ C38
\* combo lists distinct open boxes that sum to roll
IsValidCombination(combo, open, roll) ==
    /\ Range(combo) \subseteq open
    /\ Cardinality(Range(combo)) = Len(combo)
    /\ Len(combo) > 0
    /\ SumOfBoxes(Range(combo)) = roll

\* an iteration of the loop of playOneGame is complete with this step
IterationDone == playing \in {"roll", "move"} /\ playing' \in {"roll", "idle"}

\* the move selected is a valid combination for the roll and is accepted;
\* every iteration ends the game or shuts a box; the loop is left with the
\* game over
AutoplayStep ==
    /\ (playing = "move") =>
           /\ IsValidCombination(selected', openBoxes, currentRoll)
           /\ boxOp' = "makeMove" /\ boxRet' = TRUE
    /\ IterationDone =>
           \/ boxGameOver'
           \/ Cardinality(openBoxes') < Cardinality(openBoxes)
    /\ (playing # "idle" /\ playing' = "idle") => boxGameOver'

\* C38: Shut the Box autoplay: for every strategy and every sequence of dice
\* outcomes, playOneGame terminates after at most numBoxes + 1 rolls with
\* gameOver=true; every move chosen by selectBestMove is one of the valid
\* combinations for the current roll and is accepted by makeMove, so each loop
\* iteration either ends the game or shuts at least one box.
C38_PlayOneGameTerminates ==
    /\ [](playing # "idle" => rollsThisGame <= numBoxes + 1)
    /\ [][AutoplayStep]_vars
    /\ (playing # "idle") ~> (playing = "idle" /\ boxGameOver)

\* playOneGame() has returned from a game of as many rolls as there are
\* boxes, in which a strategy of the list chose among several combinations
C38_Witness ==
    /\ playing = "idle" /\ boxGameOver
    /\ rollsThisGame = numBoxes
    /\ numBoxes >= 3
    /\ boxStrategy \in STRATEGIES

\* a strategy has chosen a combination that is not the first in the list
C38_WitnessChoice ==
    /\ boxOp = "makeMove" /\ boxRet = TRUE /\ ~manualMode
    /\ selected # <<>>
    /\ Len(findValidCombinations(openBoxes \cup Range(selected), currentRoll)) > 1
    /\ selected # findValidCombinations(openBoxes \cup Range(selected), currentRoll)[1]

====
